---- MODULE Spec2Model ----
(***************************************************************************)
(* A model of @hoctail/client: the bundling utility (src/src/utils.js),    *)
(* the NodeClient SDK (src/NodeClient.js) and the command line dispatcher  *)
(* (src/src/Cli.js).                                                       *)
(*                                                                         *)
(* JavaScript is single threaded: every action below is one synchronous    *)
(* run of code between two suspension points (an `await`, a promise        *)
(* callback).  Remote replies, the bundler's results and the file system   *)
(* are the environment: their outcomes are chosen with \E.                 *)
(*                                                                         *)
(* Strings whose characters the code inspects (module names, environment   *)
(* keys) are sequences of one-character strings; paths are sequences of    *)
(* path segments.  A JavaScript value that may be undefined or null is a   *)
(* record with a tag field.                                                *)
(***************************************************************************)
EXTENDS Integers, Sequences, FiniteSets, TLC

\* ------------------------------------------------------------------------
\* Bounds of the model
\* ------------------------------------------------------------------------

\* pack() invocations that may be in flight in one process
NumCalls == 2

\* NodeClient.install() invocations that may be in flight on one client
NumInstalls == 1

\* entries of a generated source map (modules rendered into the bundle)
MaxSources == 1

\* _ensureApp/initApp invocations that may be in flight on one client
NumEnsure == 2

\* ------------------------------------------------------------------------
\* The local file system the bundler resolves against
\* ------------------------------------------------------------------------

TmpDir == <<"tmp">>

Dirs ==
  { <<>>, <<"tmp">>, <<"w">>, <<"w", "app">>, <<"w", "app", "src">>,
    <<"w", "app", "dep">>, <<"w", "lib">> }

Files ==
  { <<"tmp", "one.js">>,
    <<"w", "app", "package.json">>,
    <<"w", "app", "index.js">>,
    <<"w", "app", "src", "lib.js">>,
    <<"w", "app", "dep", "package.json">>,
    <<"w", "app", "dep", "x.js">>,
    <<"w", "lib", "package.json">>,
    <<"w", "lib", "index.js">>,
    <<"w", "lib.js">> }

\* name and main of each package.json on disk
Manifest(pkgPath) ==
  IF pkgPath = <<"w", "app", "package.json">>
    THEN [name |-> "app", main |-> <<"index.js">>]
  ELSE IF pkgPath = <<"w", "lib", "package.json">>
    THEN [name |-> "lib", main |-> <<"index.js">>]
  ELSE [name |-> "dep", main |-> <<"gone.js">>]

dirname(p) == IF p = <<>> THEN <<>> ELSE SubSeq(p, 1, Len(p) - 1)

\* the file name X.js for a directory name X
jsName(x) ==
  CASE x = "lib" -> "lib.js"
    [] x = "app" -> "app.js"
    [] x = "dep" -> "dep.js"
    [] x = "src" -> "src.js"
    [] x = "tmp" -> "tmp.js"
    [] OTHER -> "w.js"

\* X.js beside a directory X
SiblingJs(dir) ==
  IF dir = <<>> THEN <<".js">> ELSE Append(dirname(dir), jsName(dir[Len(dir)]))

\* paths handed to pack as `main`
Mains ==
  { <<"tmp", "one.js">>, <<"w", "app">>, <<"w", "app", "src", "lib.js">>,
    <<"w", "app", "src">>, <<"w", "app", "dep">>, <<"w", "app", "dep", "x.js">>,
    <<"w", "missing.js">>, <<"w", "lib">> }

\* the inputs of overlapping calls: a file with no manifest above it, and a
\* package directory
ConcMains == { <<"tmp", "one.js">>, <<"w", "app">> }

existsSync(p) == p \in Dirs \cup Files

isDirectory(p) == p \in Dirs


join(dir, rel) == dir \o rel

\* pkg-up: the nearest package.json at or above cwd; found = FALSE is null
RECURSIVE pkgUp(_)
pkgUp(cwd) ==
  IF join(cwd, <<"package.json">>) \in Files
    THEN [found |-> TRUE, path |-> join(cwd, <<"package.json">>)]
    ELSE IF cwd = <<>>
      THEN [found |-> FALSE, path |-> <<>>]
      ELSE pkgUp(dirname(cwd))

\* findPkgDir for a path that exists: found = FALSE is null
findPkgDir(main) ==
  LET cwd == IF isDirectory(main) THEN main ELSE dirname(main)
      up  == pkgUp(cwd)
  IN  [found |-> up.found, dir |-> dirname(up.path)]

\* require.resolve(dir) of node: dir.js, then the manifest's main, then
\* index.js; ok = FALSE is the MODULE_NOT_FOUND exception
requireResolve(dir) ==
  LET m == Manifest(join(dir, <<"package.json">>))
  IN  IF SiblingJs(dir) \in Files
        THEN [ok |-> TRUE, path |-> SiblingJs(dir)]
      ELSE IF join(dir, m.main) \in Files
        THEN [ok |-> TRUE, path |-> join(dir, m.main)]
      ELSE IF join(dir, <<"index.js">>) \in Files
        THEN [ok |-> TRUE, path |-> join(dir, <<"index.js">>)]
      ELSE [ok |-> FALSE, path |-> <<>>]

\* an output path that ignores the package directory
outputPathInTmp(dir) == <<"tmp", ".hoctail", "bundle.js">>

_getOutputPath(dir) == join(dir, <<".hoctail", "bundle.js">>)

\* ------------------------------------------------------------------------
\* The installed-module cache and the configuration builder
\* ------------------------------------------------------------------------

\* module names: sequences of characters
NameFs  == <<"f", "s">>
NameTar == <<"t", "a", "r">>
NameBin == <<".", "b", "i", "n">>

\* what the server may answer to 'npm.installed'
Replies == { <<>>, <<NameBin, NameFs>>, <<NameFs, NameTar>> }

startsWithDot(item) == Len(item) > 0 /\ item[1] = "."

\* .filter(item => !item.startsWith('.'))
filterInstalled(list) == SelectSeq(list, LAMBDA item : ~startsWithDot(item))

\* `let installed`: undefined until assigned
InstalledUndefined == [loaded |-> FALSE, list |-> <<>>]

NoPkg == [isNull |-> TRUE, name |-> ""]

NoConfig ==
  [ built    |-> FALSE,
    entry    |-> <<>>,        \* input.input
    external |-> <<>>,        \* input.external
    plugin   |-> FALSE,       \* input.plugins holds hoctail-output
    outFile  |-> <<>>,        \* output.file
    xform    |-> FALSE,       \* output.sourcemapPathTransform of _getConfig
    pkg      |-> NoPkg ]

\* a configuration that drops the installed set
configExternalEmpty(inst) == <<>>

\* input.external of the configuration: the `installed` array itself
configExternal(inst) == inst.list

\* the object _getConfig returns, or the error it throws
getConfig(main, inst) ==
  IF ~inst.loaded
    THEN [ok |-> FALSE, err |-> "Externals are not loaded yet", cfg |-> NoConfig]
  ELSE IF ~existsSync(main)
    THEN [ok |-> FALSE, err |-> "Path <main> doesn't exist", cfg |-> NoConfig]
  ELSE IF isDirectory(main)
    THEN LET pkgPath == join(main, <<"package.json">>)
             pkgDir  == dirname(pkgPath)
             res     == requireResolve(pkgDir)
         IN  IF ~existsSync(pkgPath)
               THEN [ok |-> FALSE, err |-> "Path <pkgPath> doesn't exist", cfg |-> NoConfig]
             ELSE IF ~res.ok
               THEN [ok |-> FALSE, err |-> "Cannot find module", cfg |-> NoConfig]
             ELSE IF ~existsSync(res.path)
               THEN [ok |-> FALSE, err |-> "Entry point <entryPoint> doesn't exist", cfg |-> NoConfig]
             ELSE [ok |-> TRUE, err |-> "",
                   cfg |-> [ built    |-> TRUE,
                             entry    |-> res.path,
                             external |-> configExternal(inst),
                             plugin   |-> TRUE,
                             outFile  |-> _getOutputPath(main),
                             xform    |-> TRUE,
                             pkg      |-> [isNull |-> FALSE,
                                           name   |-> Manifest(pkgPath).name] ]]
  ELSE LET fp == findPkgDir(main)
       IN  [ok |-> TRUE, err |-> "",
            cfg |-> [ built    |-> TRUE,
                      entry    |-> main,
                      external |-> configExternal(inst),
                      plugin   |-> TRUE,
                      outFile  |-> IF fp.found THEN _getOutputPath(fp.dir)
                                               ELSE _getOutputPath(TmpDir),
                      xform    |-> TRUE,
                      pkg      |-> IF fp.found
                                     THEN [isNull |-> FALSE,
                                           name |-> Manifest(join(fp.dir, <<"package.json">>)).name]
                                     ELSE NoPkg ]]

\* ------------------------------------------------------------------------
\* JavaScript argument values
\* ------------------------------------------------------------------------

\* package metadata a caller passes to install
UserPkg == [isNull |-> FALSE, name |-> "my-package"]

ArgUndefined == [t |-> "undefined", s |-> "", pkg |-> NoPkg]
ArgNull      == [t |-> "null", s |-> "", pkg |-> NoPkg]
ArgString(s) == [t |-> "string", s |-> s, pkg |-> NoPkg]
ArgObject(o) == [t |-> "object", s |-> "", pkg |-> o]

\* typeof v === 'object' (true of null)
typeofObject(v) == v.t \in {"null", "object"}

\* !v
falsy(v) == v.t \in {"undefined", "null"} \/ (v.t = "string" /\ v.s = "")

\* the `options` a caller may hand to pack: nothing, a key the configuration
\* does not have, a whole `input`, a whole `output`
PackOptions == {"none", "onwarn", "input", "output"}

ConcOptions == {"onwarn", "input"}

OptionInput ==
  [entry |-> <<"w", "app", "index.js">>, external |-> <<>>, plugin |-> FALSE]

OptionOutFile == <<"tmp", "out.js">>

\* Object.assign({}, _getConfig(main), options)
assignOptions(c, o) ==
  IF o = "input"
    THEN [c EXCEPT !.entry = OptionInput.entry,
                   !.external = OptionInput.external,
                   !.plugin = OptionInput.plugin]
  ELSE IF o = "output"
    THEN [c EXCEPT !.outFile = OptionOutFile, !.xform = FALSE]
  ELSE c

\* ------------------------------------------------------------------------
\* State
\* ------------------------------------------------------------------------

Calls == 1 .. NumCalls

Ensures == 1 .. NumEnsure

VARIABLES
  installed,   \* utils.js module variable `installed`
  nFetch,      \* 'npm.installed' remote calls issued so far
  pc,          \* where each pack/install invocation stands
  kind,        \* "pack": pack called directly; "install": through install
  main,        \* pack's `main`
  opt,         \* pack's `options`
  cfg,         \* pack's `config`
  err,         \* the error an invocation was rejected with
  disk,        \* bundle files written
  iarg,        \* install's arguments as passed
  ivar,        \* install's locals options, name, pkg
  trace,       \* per invocation: pack's outcome and the remote calls of install
  cmd,         \* the command line of the hoctail process
  cpc,         \* where the command stands
  rlog,        \* remote calls the process has issued, in order
  exitCode,    \* -1 while the process runs, then its exit status
  errored,     \* an error was raised while the command ran
  spawned,     \* child processes spawned
  config,      \* Cli.config: the entries of the local .env file, in order
  remoteEnv,   \* the app's env on the server
  env,         \* the locals of the env command and the env calls it issued
  epc,         \* where each _ensureApp/initApp invocation stands
  server,      \* the app on the server: its state, and whether it has its tree
  elog,        \* per invocation of _ensureApp/initApp: its calls and their replies
  bundle,      \* one rollup output: its source-map sources and its chunks
  sig,         \* the signals delivered to the hoctail process, in order
  repl,        \* the interactive repl: its meta-command and what it has shown
  unit,        \* one NodeClient object, or one call of a function of NodeClient.js
  procs        \* the node processes of one `hoctail` invocation: their execArgv

packVars == <<installed, nFetch, pc, kind, main, opt, cfg, err, disk>>
installVars == <<iarg, ivar, trace>>

cliVars == <<cmd, cpc, rlog, exitCode, errored, spawned>>
envVars == <<config, remoteEnv, env>>
ensureVars == <<epc, server, elog>>
nodeVars == <<sig, repl, unit, procs>>

\* the state of pack, install, the command line, env, _ensureApp and rollup
base == <<packVars, installVars, cliVars, envVars, ensureVars, bundle>>

vars ==
  <<installed, nFetch, pc, kind, main, opt, cfg, err, disk, iarg, ivar, trace,
    cmd, cpc, rlog, exitCode, errored, spawned, config, remoteEnv, env,
    epc, server, elog, bundle, sig, repl, unit, procs>>

NoArgs == [options |-> ArgUndefined, name |-> ArgUndefined, pkg |-> ArgUndefined]

InitPack ==
  /\ installed = InstalledUndefined
  /\ nFetch = 0
  /\ pc = [p \in Calls |-> "idle"]
  /\ kind = [p \in Calls |-> "pack"]
  /\ main = [p \in Calls |-> <<>>]
  /\ opt = [p \in Calls |-> "none"]
  /\ cfg = [p \in Calls |-> NoConfig]
  /\ err = [p \in Calls |-> ""]
  /\ disk = {}

InitInstall ==
  /\ iarg = [p \in Calls |-> NoArgs]
  /\ ivar = [p \in Calls |-> NoArgs]
  /\ trace = [p \in Calls |-> <<>>]

NoCmd ==
  [ name       |-> "",
    key        |-> FALSE,      \* --key or HOCTAIL_API_KEY is set
    app        |-> FALSE,      \* --app or HOCTAIL_APP is set
    opts       |-> "undefined",\* --opts: not given, or its one item
    path       |-> <<>>,       \* <path>; <<>> when it is not given
    serverPath |-> FALSE,      \* install: [serverPath] is given
    script     |-> "none",     \* repl: [script], and whether it can be read
    replAwait  |-> FALSE,      \* execArgv holds --experimental-repl-await
    sub        |-> "" ]        \* env: <cmd>

InitCli ==
  /\ cmd = NoCmd
  /\ cpc = "start"
  /\ rlog = <<>>
  /\ exitCode = -1
  /\ errored = FALSE
  /\ spawned = 0

NoEnv ==
  [ remote |-> {},    \* `remote`: the reply to the first getEnv
    local  |-> {},    \* `local`: _getEnv()
    todo   |-> {},    \* keys of `remote` the loop has not reached
    cur    |-> <<>>,  \* the key whose delEnv is awaited
    calls  |-> {} ]   \* setEnv and delEnv calls issued: [op, key]

InitEnv ==
  /\ config = <<>>
  /\ remoteEnv = {}
  /\ env = NoEnv

\* no _ensureApp call is made outside a command; the app is started
InitEnsure ==
  /\ epc = [p \in Ensures |-> "idle"]
  /\ server = [state |-> "started", tree |-> TRUE]
  /\ elog = [p \in Ensures |-> <<>>]

NoBundle ==
  [ stage   |-> "idle",
    pkg     |-> NoPkg,     \* `pkg` of the configuration
    exclude |-> {},        \* ids the filter of the output plugin rejects
    sources |-> <<>>,      \* source paths: as rendered, and as transformed
    before  |-> <<>>,      \* the chunks handed to generateBundle: [id, code]
    after   |-> <<>> ]     \* the chunks when generateBundle has returned

InitBundle == bundle = NoBundle

\* no meta-command has been entered
NoRepl ==
  [ n     |-> 0,      \* meta-commands entered so far
    meta  |-> "",     \* the meta-command whose action has not finished
    await |-> "",     \* the call of the client it waits for
    out   |-> <<>> ]  \* what was shown: [n, what], what is result, error or prompt

\* no function has been called and no client constructed
NoUnit == [op |-> ""]

\* no signal has been delivered, the repl is idle, no process has started
InitNode ==
  /\ sig = <<>>
  /\ repl = NoRepl
  /\ unit = NoUnit
  /\ procs = <<>>

Init ==
  /\ InitPack /\ InitInstall /\ InitCli /\ InitEnv /\ InitEnsure /\ InitBundle
  /\ InitNode

\* ------------------------------------------------------------------------
\* pack (utils.js)
\* ------------------------------------------------------------------------

\* pack up to the await inside _loadInstalled: return at once when the cache
\* is set, issue the remote call otherwise
packBegin(p, m, o) ==
  /\ main' = [main EXCEPT ![p] = m]
  /\ opt' = [opt EXCEPT ![p] = o]
  /\ IF installed.loaded
       THEN /\ pc' = [pc EXCEPT ![p] = "loaded"]
            /\ nFetch' = nFetch
       ELSE /\ pc' = [pc EXCEPT ![p] = "loadWait"]
            /\ nFetch' = nFetch + 1
  /\ UNCHANGED <<installed, cfg, err, disk>>

\* a rejected pack: in install the rejection propagates out of install
packReject(p, e) ==
  /\ pc' = [pc EXCEPT ![p] = "failed"]
  /\ err' = [err EXCEPT ![p] = e]
  /\ trace' = [trace EXCEPT ![p] = Append(@, "pack.fail")]

PackStart(p, m, o) ==
  /\ pc[p] = "idle"
  /\ kind' = [kind EXCEPT ![p] = "pack"]
  /\ packBegin(p, m, o)
  /\ UNCHANGED installVars
  /\ UNCHANGED <<cliVars, envVars>>
  /\ UNCHANGED <<ensureVars, bundle, nodeVars>>

\* the reply to 'npm.installed' arrives and is dropped: the cache stays unset
LoadReplyDropped(p, reply) ==
  /\ pc[p] = "loadWait"
  /\ pc' = [pc EXCEPT ![p] = "loaded"]
  /\ UNCHANGED <<installed, nFetch, kind, main, opt, cfg, err, disk>>
  /\ UNCHANGED <<cliVars, envVars>>
  /\ UNCHANGED installVars
  /\ UNCHANGED <<ensureVars, bundle, nodeVars>>

\* the reply to 'npm.installed' arrives: filter it and assign the cache
LoadReply(p, reply) ==
  /\ pc[p] = "loadWait"
  /\ installed' = [loaded |-> TRUE, list |-> filterInstalled(reply)]
  /\ pc' = [pc EXCEPT ![p] = "loaded"]
  /\ UNCHANGED <<nFetch, kind, main, opt, cfg, err, disk>>
  /\ UNCHANGED <<cliVars, envVars>>
  /\ UNCHANGED installVars
  /\ UNCHANGED <<ensureVars, bundle, nodeVars>>

\* 'npm.installed' is rejected: console.log(e), nothing else
LoadFail(p) ==
  /\ pc[p] = "loadWait"
  /\ pc' = [pc EXCEPT ![p] = "loaded"]
  /\ trace' = [trace EXCEPT ![p] = Append(@, "npm.installed.fail")]
  /\ UNCHANGED <<installed, nFetch, kind, main, opt, cfg, err, disk, iarg, ivar>>
  /\ UNCHANGED <<cliVars, envVars>>
  /\ UNCHANGED <<ensureVars, bundle, nodeVars>>

\* pack resumes after _loadInstalled: _getConfig, Object.assign, and the
\* call rollup(config.input)
BuildConfig(p) ==
  /\ pc[p] = "loaded"
  /\ LET r == getConfig(main[p], installed)
     IN  IF r.ok
           THEN /\ cfg' = [cfg EXCEPT ![p] = assignOptions(r.cfg, opt[p])]
                /\ pc' = [pc EXCEPT ![p] = "rollup"]
                /\ UNCHANGED <<err, trace>>
           ELSE /\ packReject(p, r.err)
                /\ UNCHANGED cfg
  /\ UNCHANGED <<installed, nFetch, kind, main, opt, disk, iarg, ivar>>
  /\ UNCHANGED <<cliVars, envVars>>
  /\ UNCHANGED <<ensureVars, bundle, nodeVars>>

\* rollup() resolves: bundle.write(config.output) is called
RollupDone(p) ==
  /\ pc[p] = "rollup"
  /\ pc' = [pc EXCEPT ![p] = "write"]
  /\ UNCHANGED <<installed, nFetch, kind, main, opt, cfg, err, disk>>
  /\ UNCHANGED <<cliVars, envVars>>
  /\ UNCHANGED installVars
  /\ UNCHANGED <<ensureVars, bundle, nodeVars>>

\* rollup() rejects (an import it cannot resolve, a syntax error)
RollupFail(p) ==
  /\ pc[p] = "rollup"
  /\ packReject(p, "bundling failed")
  /\ UNCHANGED <<installed, nFetch, kind, main, opt, cfg, disk, iarg, ivar>>
  /\ UNCHANGED <<cliVars, envVars>>
  /\ UNCHANGED <<ensureVars, bundle, nodeVars>>

\* bundle.write generates the chunk and its source map, calling
\* output.sourcemapPathTransform once per source (nSources of them), then
\* writes output.file.  The transform of _getConfig evaluates pkg.name.
writeBundle(c, nSources) ==
  IF c.xform /\ nSources > 0 /\ c.pkg.isNull
    THEN [ok |-> FALSE, err |-> "TypeError: Cannot read property 'name' of null"]
    ELSE [ok |-> TRUE, err |-> ""]

WriteDone(p, nSources) ==
  /\ pc[p] = "write"
  /\ LET w == writeBundle(cfg[p], nSources)
     IN  IF w.ok
           THEN /\ disk' = disk \cup {cfg[p].outFile}
                /\ pc' = [pc EXCEPT ![p] = "done"]
                /\ trace' = [trace EXCEPT ![p] = Append(@, "pack.ok")]
                /\ UNCHANGED err
           ELSE /\ packReject(p, w.err)
                /\ UNCHANGED disk
  /\ UNCHANGED <<installed, nFetch, kind, main, opt, cfg, iarg, ivar>>
  /\ UNCHANGED <<cliVars, envVars>>
  /\ UNCHANGED <<ensureVars, bundle, nodeVars>>

\* pack invocations are interchangeable: they are numbered in the order in
\* which they start
startsNext(p) == pc[p] = "idle" /\ \A q \in Calls : q < p => pc[q] # "idle"

\* overlapping pack calls on a small set of inputs
PackNext ==
  \E p \in Calls :
    \/ \E m \in ConcMains, o \in ConcOptions : startsNext(p) /\ PackStart(p, m, o)
    \/ \E reply \in Replies : LoadReply(p, reply)
    \/ LoadFail(p)
    \/ BuildConfig(p)
    \/ RollupDone(p)
    \/ RollupFail(p)
    \/ \E n \in 0 .. MaxSources : WriteDone(p, n)

SpecPack == Init /\ [][PackNext]_vars

\* a pack call has returned or thrown
finished(p) == pc[p] \in {"done", "failed"}

\* two pack calls in sequence: one on every input, then, when it has
\* finished, a second one
ConfigNext ==
  \/ \E m \in Mains, o \in PackOptions : PackStart(1, m, o)
  \/ \E m \in ConcMains, o \in PackOptions : finished(1) /\ PackStart(2, m, o)
  \/ \E p \in 1 .. 2 :
       \/ \E reply \in Replies : LoadReply(p, reply)
       \/ LoadFail(p)
       \/ BuildConfig(p)
       \/ RollupDone(p)
       \/ RollupFail(p)
       \/ \E n \in 0 .. MaxSources : WriteDone(p, n)

SpecConfig == Init /\ [][ConfigNext]_vars

\* ------------------------------------------------------------------------
\* NodeClient.install
\* ------------------------------------------------------------------------

\* the arguments install is called with
InstallMains == { <<"tmp", "one.js">>, <<"w", "app">>, <<"w", "app", "src", "lib.js">> }

\* the shapes install is called in: the three examples of its documentation,
\* the two calls of Cli._install (serve; install), and the shifted forms its
\* first lines accept
InstallForms ==
  { [options |-> ArgUndefined, name |-> ArgUndefined, pkg |-> ArgUndefined],
    [options |-> ArgString("lodash-pick"), name |-> ArgUndefined, pkg |-> ArgUndefined],
    [options |-> ArgNull, name |-> ArgNull, pkg |-> ArgObject(UserPkg)],
    [options |-> ArgObject(NoPkg), name |-> ArgString("./server"), pkg |-> ArgUndefined],
    [options |-> ArgObject(NoPkg), name |-> ArgString("my-package"), pkg |-> ArgObject(UserPkg)],
    [options |-> ArgObject(NoPkg), name |-> ArgObject(UserPkg), pkg |-> ArgUndefined],
    [options |-> ArgString("lodash-pick"), name |-> ArgObject(UserPkg), pkg |-> ArgUndefined],
    [options |-> ArgUndefined, name |-> ArgUndefined, pkg |-> ArgObject(UserPkg)] }

\* the argument shuffling at the head of install
shiftArgs(a) ==
  LET s1 == IF typeofObject(a.name)
              THEN [options |-> ArgNull, name |-> a.options, pkg |-> a.name]
              ELSE a
  IN  IF s1.options.t = "string"
        THEN [options |-> ArgNull, name |-> s1.options, pkg |-> s1.pkg]
        ELSE s1

\* config.pkg as a value
configPkg(c) == IF c.pkg.isNull THEN ArgNull ELSE ArgObject(c.pkg)

\* install from its call to the await inside pack: the arguments are shuffled,
\* options become Object.assign({ onwarn }, options), and pack is called
installBegin(p, src, a) ==
  /\ pc[p] = "idle"
  /\ kind' = [kind EXCEPT ![p] = "install"]
  /\ iarg' = [iarg EXCEPT ![p] = a]
  /\ ivar' = [ivar EXCEPT ![p] = shiftArgs(a)]
  /\ packBegin(p, src, "onwarn")
  /\ UNCHANGED trace

InstallStart(p, src, a) ==
  /\ installBegin(p, src, a)
  /\ UNCHANGED <<cliVars, envVars>>
  /\ UNCHANGED <<ensureVars, bundle, nodeVars>>

\* install resumes with pack's config: pkg and name default from it, then
\* restartApp is called.  pkg.name of a null pkg throws.
resolveNames(v, c) ==
  LET pkg == IF falsy(v.pkg) THEN configPkg(c) ELSE v.pkg
  IN  IF ~falsy(v.name)
        THEN [ok |-> TRUE, v |-> [v EXCEPT !.pkg = pkg]]
      ELSE IF pkg.t = "object"
        THEN [ok |-> TRUE, v |-> [v EXCEPT !.pkg = pkg, !.name = ArgString(pkg.pkg.name)]]
      ELSE [ok |-> FALSE, v |-> [v EXCEPT !.pkg = pkg]]

AfterPack(p) ==
  /\ pc[p] = "done"
  /\ kind[p] = "install"
  /\ LET r == resolveNames(ivar[p], cfg[p])
     IN  /\ ivar' = [ivar EXCEPT ![p] = r.v]
         /\ IF r.ok
              THEN /\ pc' = [pc EXCEPT ![p] = "restartWait"]
                   /\ trace' = [trace EXCEPT ![p] = Append(@, "restartApp")]
                   /\ UNCHANGED err
              ELSE /\ pc' = [pc EXCEPT ![p] = "failed"]
                   /\ err' = [err EXCEPT ![p] = "TypeError: Cannot read property 'name' of null"]
                   /\ UNCHANGED trace
  /\ UNCHANGED <<installed, nFetch, kind, main, opt, cfg, disk, iarg>>
  /\ UNCHANGED <<cliVars, envVars>>
  /\ UNCHANGED <<ensureVars, bundle, nodeVars>>

\* restartApp resolves: the bundle is read back and 'npm.install' is called
\* with name, the bundle's text and pkg
RestartDone(p) ==
  /\ pc[p] = "restartWait"
  /\ IF cfg[p].outFile \in disk
       THEN /\ pc' = [pc EXCEPT ![p] = "installWait"]
            /\ trace' = [trace EXCEPT ![p] = @ \o <<"restartApp.ok", "npm.install">>]
            /\ UNCHANGED err
       ELSE /\ pc' = [pc EXCEPT ![p] = "failed"]
            /\ err' = [err EXCEPT ![p] = "ENOENT"]
            /\ trace' = [trace EXCEPT ![p] = Append(@, "restartApp.ok")]
  /\ UNCHANGED <<installed, nFetch, kind, main, opt, cfg, disk, iarg, ivar>>
  /\ UNCHANGED <<cliVars, envVars>>
  /\ UNCHANGED <<ensureVars, bundle, nodeVars>>

\* a rejected restartApp that is swallowed: 'npm.install' is called all the same
RestartFailSwallowed(p) ==
  /\ pc[p] = "restartWait"
  /\ pc' = [pc EXCEPT ![p] = "installWait"]
  /\ trace' = [trace EXCEPT ![p] = @ \o <<"restartApp.fail", "npm.install">>]
  /\ UNCHANGED <<installed, nFetch, kind, main, opt, cfg, err, disk, iarg, ivar>>
  /\ UNCHANGED <<cliVars, envVars>>
  /\ UNCHANGED <<ensureVars, bundle, nodeVars>>

\* restartApp rejects: install rejects
RestartFail(p) ==
  /\ pc[p] = "restartWait"
  /\ pc' = [pc EXCEPT ![p] = "failed"]
  /\ err' = [err EXCEPT ![p] = "restartApp failed"]
  /\ trace' = [trace EXCEPT ![p] = Append(@, "restartApp.fail")]
  /\ UNCHANGED <<installed, nFetch, kind, main, opt, cfg, disk, iarg, ivar>>
  /\ UNCHANGED <<cliVars, envVars>>
  /\ UNCHANGED <<ensureVars, bundle, nodeVars>>

\* 'npm.install' resolves: install returns { name, path, bundle }
InstallDone(p) ==
  /\ pc[p] = "installWait"
  /\ pc' = [pc EXCEPT ![p] = "installed"]
  /\ UNCHANGED <<installed, nFetch, kind, main, opt, cfg, err, disk>>
  /\ UNCHANGED <<cliVars, envVars>>
  /\ UNCHANGED installVars
  /\ UNCHANGED <<ensureVars, bundle, nodeVars>>

InstallFail(p) ==
  /\ pc[p] = "installWait"
  /\ pc' = [pc EXCEPT ![p] = "failed"]
  /\ err' = [err EXCEPT ![p] = "npm.install failed"]
  /\ UNCHANGED <<installed, nFetch, kind, main, opt, cfg, disk>>
  /\ UNCHANGED <<cliVars, envVars>>
  /\ UNCHANGED installVars
  /\ UNCHANGED <<ensureVars, bundle, nodeVars>>

InstallNext ==
  \E p \in 1 .. NumInstalls :
    \/ \E src \in InstallMains, a \in InstallForms :
         startsNext(p) /\ InstallStart(p, src, a)
    \/ \E reply \in Replies : LoadReply(p, reply)
    \/ LoadFail(p)
    \/ BuildConfig(p)
    \/ RollupDone(p)
    \/ RollupFail(p)
    \/ \E n \in 0 .. MaxSources : WriteDone(p, n)
    \/ AfterPack(p)
    \/ RestartDone(p)
    \/ RestartFail(p)
    \/ InstallDone(p)
    \/ InstallFail(p)

SpecInstall == Init /\ [][InstallNext]_vars

\* ------------------------------------------------------------------------
\* Properties of pack and install
\* ------------------------------------------------------------------------

Range(f) == { f[i] : i \in DOMAIN f }

started(p) == pc[p] # "idle"

\* the events of an invocation without those of the cache loader
steps(p) == SelectSeq(trace[p], LAMBDA e : e # "npm.installed.fail")

IsPrefix(s, t) == Len(s) <= Len(t) /\ s = SubSeq(t, 1, Len(s))

\* C1: however many pack calls have started, overlapping or not, exactly one
\* 'npm.installed' remote call has been issued.
C1_ExactlyOneFetch == (\E p \in Calls : started(p)) => nFetch = 1

\* C2: a pack call whose 'npm.installed' call failed is never rejected for
\* it: it does not end with "Externals are not loaded yet".
C2_FetchFailureSwallowed ==
  \A p \in Calls :
    "npm.installed.fail" \in Range(trace[p])
      => ~(pc[p] = "failed" /\ err[p] = "Externals are not loaded yet")

\* an existing file with no package.json in its directory or above
fileWithoutManifest(m) ==
  existsSync(m) /\ ~isDirectory(m) /\ ~findPkgDir(m).found

\* C3: pack of an existing file with no package.json at or above its
\* directory is never rejected by a step of pack itself: once the externals
\* are loaded and the bundler accepts the source, it ends with pkg = null and
\* the bundle written under the temporary directory.
C3_FileWithoutManifestBundles ==
  \A p \in Calls :
    (fileWithoutManifest(main[p]) /\ opt[p] = "none" /\ pc[p] \in {"done", "failed"})
      => \/ /\ pc[p] = "done"
            /\ cfg[p].pkg.isNull
            /\ _getOutputPath(TmpDir) \in disk
         \/ /\ pc[p] = "failed"
            /\ err[p] \in {"Externals are not loaded yet", "bundling failed"}

\* C4 as claimed: whatever options were passed, the external list handed to
\* the bundler is the installed set cached at that moment.
C4_ExternalIsInstalledAnyOptions ==
  [][\A p \in Calls :
       (pc[p] = "loaded" /\ pc'[p] = "rollup")
         => cfg'[p].external = installed.list]_vars

\* C4 as amended: when the options carry no `input` property, the external
\* list handed to the bundler is the installed set cached at that moment, and
\* the configuration pack returns is that one.
C4_ExternalIsInstalled ==
  [][\A p \in Calls :
       /\ (pc[p] = "loaded" /\ pc'[p] = "rollup" /\ opt[p] # "input")
            => (cfg'[p].built /\ cfg'[p].external = installed.list)
       /\ pc[p] \in {"rollup", "write"} => cfg'[p] = cfg[p]]_vars

C4_Witness ==
  \E p \in Calls :
    /\ pc[p] = "done"
    /\ opt[p] = "onwarn"
    /\ cfg[p].external = <<NameFs>>
    /\ installed.list = <<NameFs>>

\* install called as install(src, null, null, pkg)
DocForm == [options |-> ArgNull, name |-> ArgNull, pkg |-> ArgObject(UserPkg)]

\* C9: install(src, null, null, pkg) sends pkg as the metadata of
\* 'npm.install' and installs under pkg.name.
C9_DocFormSendsPkg ==
  \A p \in Calls :
    (iarg[p] = DocForm /\ "npm.install" \in Range(trace[p]))
      => /\ ivar[p].pkg = ArgObject(UserPkg)
         /\ ivar[p].name = ArgString(UserPkg.name)

\* C10: in every install call pack completes, then restartApp completes, then
\* 'npm.install' is issued; after a failed pack neither remote call is issued,
\* after a failed restartApp 'npm.install' is not.
C10_InstallOrder ==
  \A p \in Calls :
    kind[p] = "install"
      => \/ IsPrefix(steps(p), <<"pack.ok", "restartApp", "restartApp.ok", "npm.install">>)
         \/ steps(p) = <<"pack.fail">>
         \/ steps(p) = <<"pack.ok", "restartApp", "restartApp.fail">>

C10_Witness ==
  \E p \in Calls :
    /\ kind[p] = "install"
    /\ pc[p] = "installed"
    /\ steps(p) = <<"pack.ok", "restartApp", "restartApp.ok", "npm.install">>


\* ------------------------------------------------------------------------
\* The command line (Cli.js)
\* ------------------------------------------------------------------------

\* process.cwd()
Cwd == <<"w", "app">>

\* <path> arguments: the entry points of install, and a path that is not there
CliPaths == InstallMains \cup { <<"w", "missing.js">> }

\* resolve(src || process.cwd())
resolve(src) == IF src = <<>> THEN Cwd ELSE src

\* cmdObj.parent.opts: undefined without --opts, else { <item>: true }
Opts == {"undefined", "dryrun", "react", "bundled"}

\* the output of rollup.mini.config.js, written relative to cwd
MiniBundleFile == join(Cwd, <<".bundle.mini.js">>)

ServeCommands ==
  { [NoCmd EXCEPT !.name = "serve", !.path = p] : p \in CliPaths \cup {<<>>} }

InstallCommands ==
  { [NoCmd EXCEPT !.name = "install", !.path = p, !.serverPath = sp] :
      p \in CliPaths, sp \in BOOLEAN }

MiniCommands ==
  { [NoCmd EXCEPT !.name = "mini", !.path = p, !.opts = o] :
      p \in CliPaths, o \in Opts }

ReplCommands ==
  { [NoCmd EXCEPT !.name = "repl", !.script = sc, !.replAwait = ra] :
      sc \in {"none", "readable", "unreadable"}, ra \in BOOLEAN }

EnvCommands ==
  { [NoCmd EXCEPT !.name = "env", !.sub = c] : c \in {"push", "pull", "show", "clear"} }

\* a command with the credentials and the app that the options and the
\* environment give it
withOptions(commands) ==
  { [c EXCEPT !.key = k, !.app = a] : c \in commands, k \in BOOLEAN, a \in BOOLEAN }

\* console.error(e.message); process.exit(1)
cliFail ==
  /\ errored' = TRUE
  /\ exitCode' = 1
  /\ cpc' = "exited"

cliGoto(label) ==
  /\ cpc' = label
  /\ UNCHANGED <<errored, exitCode>>

\* client.close() of _wrap: terminate is called and awaited
closeClient(log) ==
  /\ rlog' = Append(log, "terminate")
  /\ cliGoto("close")

\* the options object that Cli._install hands to install
CliInstallOptions == ArgObject(NoPkg)

\* require(join(pkgDir, 'package.json')) as the pkg argument
requirePkg(dir) ==
  ArgObject([isNull |-> FALSE, name |-> Manifest(join(dir, <<"package.json">>)).name])

\* the command's action from the point where _ensureApp has resolved up to
\* its next await
afterEnsure(log) ==
  CASE cmd.name = "serve" ->
         /\ installBegin(1, resolve(cmd.path),
              [options |-> CliInstallOptions, name |-> ArgString("./server"),
               pkg |-> ArgUndefined])
         /\ rlog' = log
         /\ cliGoto("install")
    [] cmd.name = "install" ->
         LET dir == findPkgDir(cmd.path)
         IN  IF ~existsSync(cmd.path) \/ (~cmd.serverPath /\ ~dir.found)
               THEN /\ cliFail
                    /\ rlog' = log
                    /\ UNCHANGED <<packVars, installVars>>
               ELSE /\ installBegin(1, resolve(cmd.path),
                         IF cmd.serverPath
                           THEN [options |-> CliInstallOptions,
                                 name |-> ArgString("./module"),
                                 pkg |-> ArgUndefined]
                           ELSE [options |-> CliInstallOptions,
                                 name |-> ArgString(requirePkg(dir.dir).pkg.name),
                                 pkg |-> requirePkg(dir.dir)])
                    /\ rlog' = log
                    /\ cliGoto("install")
    [] cmd.name = "mini" ->
         /\ rlog' = Append(log, "getAppType")
         /\ cliGoto("appType")
         /\ UNCHANGED <<packVars, installVars>>
    [] cmd.name = "repl" ->
         /\ rlog' = log
         /\ cliGoto("script")
         /\ UNCHANGED <<packVars, installVars>>
    [] cmd.name = "env" ->
         /\ rlog' = Append(log, "getEnv")
         /\ cliGoto("envGet")
         /\ UNCHANGED <<packVars, installVars>>

\* the action of a command from its start to its first await.  The default
\* command re-spawns node when --experimental-repl-await is not in execArgv;
\* createClient throws without a key or an app; repl connects; the other
\* commands begin with _ensureApp, whose first step is 'http_server.get_state'
CliStart(c) ==
  /\ cpc = "start"
  /\ cmd' = c
  /\ IF c.name = "repl" /\ ~c.replAwait
       THEN /\ spawned' = spawned + 1
            /\ cliGoto("parent")
            /\ UNCHANGED rlog
     ELSE IF ~c.key \/ ~c.app
       THEN /\ cliFail
            /\ UNCHANGED <<rlog, spawned>>
     ELSE IF c.name = "repl"
       THEN /\ rlog' = Append(rlog, "connect")
            /\ cliGoto("connect")
            /\ UNCHANGED spawned
     ELSE /\ rlog' = Append(rlog, "http_server.get_state")
          /\ cliGoto("getState")
          /\ UNCHANGED spawned
  /\ UNCHANGED <<packVars, installVars, envVars>>
  /\ UNCHANGED <<ensureVars, bundle, nodeVars>>

\* the re-spawning process: its action returned, it ends when its child ends
ParentExit ==
  /\ cpc = "parent"
  /\ exitCode' = 0
  /\ cpc' = "exited"
  /\ UNCHANGED <<cmd, rlog, errored, spawned, packVars, installVars, envVars>>
  /\ UNCHANGED <<ensureVars, bundle, nodeVars>>

\* connect resolved: without a script the prompt is built from user(); a
\* script is read, then _ensureApp is called
ConnectDone ==
  /\ cpc = "connect"
  /\ CASE cmd.script = "none" ->
            /\ rlog' = Append(rlog, "user")
            /\ cliGoto("prompt")
       [] cmd.script = "unreadable" ->
            /\ cliFail
            /\ UNCHANGED rlog
       [] cmd.script = "readable" ->
            /\ rlog' = Append(rlog, "http_server.get_state")
            /\ cliGoto("getState")
  /\ UNCHANGED <<cmd, spawned, packVars, installVars, envVars>>
  /\ UNCHANGED <<ensureVars, bundle, nodeVars>>

\* an awaited call of the command rejects: the rejection reaches the catch of
\* _wrap, or the catch of run, and the process exits with 1
Awaiting ==
  { "connect", "getState", "hasTree", "initSchema", "rebase", "prompt",
    "appType", "miniConfig", "miniRollup", "miniWrite", "put", "url", "close",
    "envGet", "envSet", "envDel", "envShow" }

AwaitFail ==
  /\ cpc \in Awaiting
  /\ cliFail
  /\ UNCHANGED <<cmd, rlog, spawned, packVars, installVars, envVars>>
  /\ UNCHANGED <<ensureVars, bundle, nodeVars>>


\* _ensureApp: the reply to 'http_server.get_state'.  null is "does not
\* exist"; an app in state 'created' is initialised, starting with hasTree()
AppStates == {"null", "created", "started"}

GetStateReply(state) ==
  /\ cpc = "getState"
  /\ CASE state = "null" ->
            /\ cliFail
            /\ UNCHANGED <<rlog, packVars, installVars>>
       [] state = "created" ->
            /\ rlog' = Append(rlog, "hasTree")
            /\ cliGoto("hasTree")
            /\ UNCHANGED <<packVars, installVars>>
       [] state = "started" ->
            afterEnsure(rlog)
  /\ UNCHANGED <<cmd, spawned, envVars>>
  /\ UNCHANGED <<ensureVars, bundle, nodeVars>>

\* initApp: an app that has its tree needs nothing more
HasTreeReply(initialized) ==
  /\ cpc = "hasTree"
  /\ IF initialized
       THEN afterEnsure(rlog)
       ELSE /\ rlog' = Append(rlog, "public.init_schema")
            /\ cliGoto("initSchema")
            /\ UNCHANGED <<packVars, installVars>>
  /\ UNCHANGED <<cmd, spawned, envVars>>
  /\ UNCHANGED <<ensureVars, bundle, nodeVars>>

InitSchemaDone ==
  /\ cpc = "initSchema"
  /\ rlog' = Append(rlog, "public.rebase")
  /\ cliGoto("rebase")
  /\ UNCHANGED <<cmd, spawned, packVars, installVars, envVars>>
  /\ UNCHANGED <<ensureVars, bundle, nodeVars>>

RebaseDone ==
  /\ cpc = "rebase"
  /\ afterEnsure(rlog)
  /\ UNCHANGED <<cmd, spawned, envVars>>
  /\ UNCHANGED <<ensureVars, bundle, nodeVars>>

\* client.install resolved in Cli._install: serve asks for the url, install
\* is finished and the client is closed
CliInstallDone ==
  /\ cpc = "install"
  /\ pc[1] = "installed"
  /\ IF cmd.name = "serve"
       THEN /\ rlog' = Append(rlog, "http-server.url")
            /\ cliGoto("url")
       ELSE closeClient(rlog)
  /\ UNCHANGED <<cmd, spawned, packVars, installVars, envVars>>
  /\ UNCHANGED <<ensureVars, bundle, nodeVars>>

\* client.install rejected
CliInstallFail ==
  /\ cpc = "install"
  /\ pc[1] = "failed"
  /\ cliFail
  /\ UNCHANGED <<cmd, rlog, spawned, packVars, installVars, envVars>>
  /\ UNCHANGED <<ensureVars, bundle, nodeVars>>

UrlDone ==
  /\ cpc = "url"
  /\ closeClient(rlog)
  /\ UNCHANGED <<cmd, spawned, packVars, installVars, envVars>>
  /\ UNCHANGED <<ensureVars, bundle, nodeVars>>

\* putFile: the file is read, then 'http_server.put' is called in a
\* transaction
putFile(log, filePath, written) ==
  IF filePath \in Files \cup written
    THEN /\ rlog' = Append(log, "http_server.put")
         /\ cliGoto("put")
    ELSE /\ cliFail
         /\ rlog' = log

AppTypes == {"mini", "page"}

\* a truthy `bundled` argument of installMini
truthyOpts(o) == o # "undefined"

\* installMini without the test of the app type
AppTypeReplyAnyType(appType) ==
  /\ cpc = "appType"
  /\ unit' = [op |-> "installMini", type |-> appType, input |-> <<>>]
  /\ IF truthyOpts(cmd.opts)
       THEN putFile(rlog, cmd.path, disk)
       ELSE /\ cliGoto("miniConfig")
            /\ UNCHANGED rlog
  /\ UNCHANGED <<cmd, spawned, packVars, installVars, envVars>>
  /\ UNCHANGED <<ensureVars, bundle, sig, repl, procs>>

\* installMini after checkAppType: another type is warned about and nothing
\* is done; for 'mini' the file is uploaded as it is when `bundled` is
\* truthy, and bundled first otherwise
AppTypeReply(appType) ==
  /\ cpc = "appType"
  /\ unit' = [op |-> "installMini", type |-> appType, input |-> <<>>]
  /\ IF appType # "mini"
       THEN closeClient(rlog)
     ELSE IF truthyOpts(cmd.opts)
       THEN putFile(rlog, cmd.path, disk)
     ELSE /\ cliGoto("miniConfig")
          /\ UNCHANGED rlog
  /\ UNCHANGED <<cmd, spawned, packVars, installVars, envVars>>
  /\ UNCHANGED <<ensureVars, bundle, sig, repl, procs>>

\* options.input = inputPath || pkg.main, where pkg is the manifest of the
\* package directory, or {} when there is none
rollupInput(inputPath) ==
  LET pkgDir == findPkgDir(inputPath)
  IN  IF inputPath # <<>>
        THEN inputPath
      ELSE IF pkgDir.found
        THEN Manifest(join(pkgDir.dir, <<"package.json">>)).main
      ELSE <<>>

\* rollupBundle: the configuration file is loaded, findPkgDir checks the
\* path, and rollup is called with options.input
MiniConfigLoaded ==
  /\ cpc = "miniConfig"
  /\ IF existsSync(cmd.path)
       THEN /\ cliGoto("miniRollup")
            /\ unit' = [unit EXCEPT !.op = "rollupBundle",
                                    !.input = rollupInput(cmd.path)]
       ELSE /\ cliFail
            /\ UNCHANGED unit
  /\ UNCHANGED <<cmd, rlog, spawned, packVars, installVars, envVars>>
  /\ UNCHANGED <<ensureVars, bundle, sig, repl, procs>>

MiniRollupDone ==
  /\ cpc = "miniRollup"
  /\ cliGoto("miniWrite")
  /\ UNCHANGED <<cmd, rlog, spawned, packVars, installVars, envVars>>
  /\ UNCHANGED <<ensureVars, bundle, nodeVars>>

\* bundle.write resolved: the first artefact is uploaded
MiniWriteDone ==
  /\ cpc = "miniWrite"
  /\ disk' = disk \cup {MiniBundleFile}
  /\ putFile(rlog, MiniBundleFile, disk \cup {MiniBundleFile})
  /\ UNCHANGED <<installed, nFetch, pc, kind, main, opt, cfg, err>>
  /\ UNCHANGED <<cmd, spawned, installVars, envVars>>
  /\ UNCHANGED <<ensureVars, bundle, nodeVars>>

PutDone ==
  /\ cpc = "put"
  /\ closeClient(rlog)
  /\ UNCHANGED <<cmd, spawned, packVars, installVars, envVars>>
  /\ UNCHANGED <<ensureVars, bundle, nodeVars>>

\* client.close() resolved: process.exit(0)
CloseDone ==
  /\ cpc = "close"
  /\ exitCode' = 0
  /\ cpc' = "exited"
  /\ UNCHANGED <<cmd, rlog, errored, spawned, packVars, installVars, envVars>>
  /\ UNCHANGED <<ensureVars, bundle, nodeVars>>

\* die: a 5 s timer is armed and terminate is called
die(log) ==
  /\ rlog' = Append(log, "terminate")
  /\ cpc' = "dying"
  /\ UNCHANGED exitCode

\* the script's promise resolved
ScriptDone ==
  /\ cpc = "script"
  /\ die(rlog)
  /\ UNCHANGED <<cmd, errored, spawned, packVars, installVars, envVars>>
  /\ UNCHANGED <<ensureVars, bundle, nodeVars>>

\* the script's promise rejected: the error is printed, then die
ScriptThrow ==
  /\ cpc = "script"
  /\ errored' = TRUE
  /\ die(rlog)
  /\ UNCHANGED <<cmd, spawned, packVars, installVars, envVars>>
  /\ UNCHANGED <<ensureVars, bundle, nodeVars>>

\* the prompt is built and the repl is launched
PromptDone ==
  /\ cpc = "prompt"
  /\ cliGoto("repl")
  /\ UNCHANGED <<cmd, rlog, spawned, packVars, installVars, envVars>>
  /\ UNCHANGED <<ensureVars, bundle, nodeVars>>

\* the repl server emits 'exit'
ReplExit ==
  /\ cpc = "repl"
  /\ die(rlog)
  /\ UNCHANGED <<cmd, errored, spawned, packVars, installVars, envVars>>
  /\ UNCHANGED <<ensureVars, bundle, nodeVars>>

\* terminate resolved: the timer is cleared, process.exit(0)
TerminateDone ==
  /\ cpc = "dying"
  /\ exitCode' = 0
  /\ cpc' = "exited"
  /\ UNCHANGED <<cmd, rlog, errored, spawned, packVars, installVars, envVars>>
  /\ UNCHANGED <<ensureVars, bundle, nodeVars>>

\* the timer fires first: process.exit(0)
DieTimeout ==
  /\ cpc = "dying"
  /\ exitCode' = 0
  /\ cpc' = "exited"
  /\ UNCHANGED <<cmd, rlog, errored, spawned, packVars, installVars, envVars>>
  /\ UNCHANGED <<ensureVars, bundle, nodeVars>>

CliNext ==
  \/ \E c \in withOptions(ServeCommands \cup InstallCommands \cup MiniCommands
                            \cup ReplCommands) : CliStart(c)
  \/ ParentExit
  \/ ConnectDone
  \/ AwaitFail
  \/ \E state \in AppStates : GetStateReply(state)
  \/ \E initialized \in BOOLEAN : HasTreeReply(initialized)
  \/ InitSchemaDone
  \/ RebaseDone
  \/ \E reply \in Replies : LoadReply(1, reply)
  \/ LoadFail(1)
  \/ BuildConfig(1)
  \/ RollupDone(1)
  \/ RollupFail(1)
  \/ \E n \in 0 .. MaxSources : WriteDone(1, n)
  \/ AfterPack(1)
  \/ RestartDone(1)
  \/ RestartFail(1)
  \/ InstallDone(1)
  \/ InstallFail(1)
  \/ CliInstallDone
  \/ CliInstallFail
  \/ UrlDone
  \/ \E appType \in AppTypes : AppTypeReply(appType)
  \/ MiniConfigLoaded
  \/ MiniRollupDone
  \/ MiniWriteDone
  \/ PutDone
  \/ CloseDone
  \/ ScriptDone
  \/ ScriptThrow
  \/ PromptDone
  \/ ReplExit
  \/ TerminateDone
  \/ DieTimeout

SpecCli == Init /\ [][CliNext]_vars


\* ------------------------------------------------------------------------
\* The env command (Cli.js)
\* ------------------------------------------------------------------------

\* entries of the local .env file that a run may hold
MaxConfig == 2

\* variable names: sequences of characters
Prefix == <<"H", "O", "C", "T", "A", "I", "L", "_">>

KeyA == <<"A">>
KeyLowerA == <<"a">>
KeyB == <<"B">>
KeyReserved == Prefix \o <<"K">>
KeyLowerReserved == <<"h", "o", "c", "t", "a", "i", "l", "_", "k">>
KeyToString == <<"t", "o", "S", "t", "r", "i", "n", "g">>

\* String.prototype.toUpperCase on the characters that occur
upperChar(c) ==
  CASE c = "a" -> "A"
    [] c = "c" -> "C"
    [] c = "g" -> "G"
    [] c = "h" -> "H"
    [] c = "i" -> "I"
    [] c = "k" -> "K"
    [] c = "l" -> "L"
    [] c = "n" -> "N"
    [] c = "o" -> "O"
    [] c = "r" -> "R"
    [] c = "t" -> "T"
    [] OTHER -> c

toUpperCase(k) == [i \in 1 .. Len(k) |-> upperChar(k[i])]

startsWith(k, prefix) ==
  Len(k) >= Len(prefix) /\ SubSeq(k, 1, Len(prefix)) = prefix

\* an env object: a set of entries [k, v] with one entry for a key
keysOf(e) == { x.k : x \in e }

\* Object.assign of one entry
setKey(e, k, v) == { x \in e : x.k # k } \cup { [k |-> k, v |-> v] }

\* _getEnv: the entries of this.config in order, keys upper-cased, reserved
\* keys left out; a later entry replaces an earlier one of the same key
RECURSIVE getEnvFrom(_, _)
getEnvFrom(entries, e) ==
  IF entries = <<>>
    THEN e
    ELSE LET k == toUpperCase(Head(entries).k)
         IN  getEnvFrom(Tail(entries),
               IF ~startsWith(k, Prefix) THEN setKey(e, k, Head(entries).v) ELSE e)

\* _getEnv without the test of the reserved prefix
RECURSIVE getEnvUnfiltered(_)
getEnvUnfiltered(entries) ==
  IF entries = <<>>
    THEN {}
    ELSE LET e == getEnvUnfiltered(SubSeq(entries, 1, Len(entries) - 1))
             x == entries[Len(entries)]
         IN  setKey(e, toUpperCase(x.k), x.v)

_getEnv(entries) == getEnvFrom(entries, {})

\* property names every object literal inherits from Object.prototype
ObjectPrototypeKeys == { KeyToString }

\* local[k] == null
lookupIsNull(local, k) == k \notin keysOf(local) /\ k \notin ObjectPrototypeKeys

ConfigKeys == { KeyA, KeyLowerA, KeyReserved, KeyLowerReserved }

ConfigEntries == { [k |-> k, v |-> v] : k \in ConfigKeys, v \in {"1", "2"} }

\* the parsed .env file: entries in file order, no key twice
Configs ==
  { c \in UNION { [1 .. n -> ConfigEntries] : n \in 0 .. MaxConfig } :
      \A i, j \in DOMAIN c : i # j => c[i].k # c[j].k }

RemoteEnvs == SUBSET { [k |-> k, v |-> "0"] : k \in { KeyA, KeyB, KeyReserved, KeyToString } }

InitEnvSpec ==
  /\ InitPack
  /\ InitInstall
  /\ InitCli
  /\ config \in Configs
  /\ remoteEnv \in RemoteEnvs
  /\ env = NoEnv
  /\ InitEnsure
  /\ InitBundle
  /\ InitNode

\* the push loop from its current key to its next await: the first key of
\* `remote` not yet visited that `local` lacks is deleted; when none is left
\* the remote env is fetched for printing.  Object.keys gives the keys in an
\* order the model does not fix.
pushLoop(e, log) ==
  IF \E k \in e.todo : lookupIsNull(e.local, k)
    THEN \E k \in e.todo :
           /\ lookupIsNull(e.local, k)
           /\ env' = [e EXCEPT !.todo = @ \ {k}, !.cur = k,
                               !.calls = @ \cup {[op |-> "delEnv", key |-> k]}]
           /\ rlog' = Append(log, "delEnv")
           /\ cliGoto("envDel")
    ELSE /\ env' = [e EXCEPT !.todo = {}]
         /\ rlog' = Append(log, "getEnv")
         /\ cliGoto("envShow")

\* a set of entries as a sequence: Object.entries of the reply
RECURSIVE entriesOf(_)
entriesOf(e) ==
  IF e = {} THEN <<>>
  ELSE LET x == CHOOSE y \in e : TRUE IN <<x>> \o entriesOf(e \ {x})

\* `${k}='${v}'`
envLine(x) == x.k \o <<"=", "'", x.v, "'">>

\* the lines pull writes to .env: the entries of this.config whose key
\* starts with HOCTAIL_ as it is spelled, then every entry of `remote`
pullFile(entries, remote) ==
  LET kept == SelectSeq(entries, LAMBDA x : startsWith(x.k, Prefix))
      all == kept \o entriesOf(remote)
  IN  [i \in DOMAIN all |-> envLine(all[i])]

\* the first getEnv resolved: `remote` and `local` are set and the
\* subcommand runs.  push calls setEnv(local); pull writes the .env file and
\* show prints; anything else throws
EnvGetReply ==
  /\ cpc = "envGet"
  /\ LET e == [env EXCEPT !.remote = remoteEnv, !.local = _getEnv(config),
                          !.todo = keysOf(remoteEnv)]
     IN  CASE cmd.sub = "push" ->
                /\ env' = [e EXCEPT !.calls =
                             @ \cup { [op |-> "setEnv", key |-> k] : k \in keysOf(e.local) }]
                /\ rlog' = Append(rlog, "setEnv")
                /\ cliGoto("envSet")
                /\ UNCHANGED unit
           [] cmd.sub = "pull" ->
                /\ env' = e
                /\ unit' = [op |-> "pull", remote |-> remoteEnv, config |-> config,
                            file |-> pullFile(config, remoteEnv)]
                /\ closeClient(rlog)
           [] cmd.sub = "show" ->
                /\ env' = e
                /\ closeClient(rlog)
                /\ UNCHANGED unit
           [] OTHER ->
                /\ env' = e
                /\ cliFail
                /\ UNCHANGED <<rlog, unit>>
  /\ UNCHANGED <<cmd, spawned, config, remoteEnv, packVars, installVars>>
  /\ UNCHANGED <<ensureVars, bundle, sig, repl, procs>>

\* setEnv resolved: the server holds every entry of `local`
EnvSetDone ==
  /\ cpc = "envSet"
  /\ remoteEnv' = { x \in remoteEnv : x.k \notin keysOf(env.local) } \cup env.local
  /\ pushLoop(env, rlog)
  /\ UNCHANGED <<cmd, spawned, config, packVars, installVars>>
  /\ UNCHANGED <<ensureVars, bundle, nodeVars>>

\* delEnv resolved: the server has dropped the key
EnvDelDone ==
  /\ cpc = "envDel"
  /\ remoteEnv' = { x \in remoteEnv : x.k # env.cur }
  /\ pushLoop(env, rlog)
  /\ UNCHANGED <<cmd, spawned, config, packVars, installVars>>
  /\ UNCHANGED <<ensureVars, bundle, nodeVars>>

\* the final getEnv resolved: it is printed and the client is closed
EnvShowReply ==
  /\ cpc = "envShow"
  /\ closeClient(rlog)
  /\ UNCHANGED <<cmd, spawned, packVars, installVars, envVars>>
  /\ UNCHANGED <<ensureVars, bundle, nodeVars>>

EnvNext ==
  \/ \E c \in withOptions(EnvCommands) : CliStart(c)
  \/ AwaitFail
  \/ \E state \in AppStates : GetStateReply(state)
  \/ \E initialized \in BOOLEAN : HasTreeReply(initialized)
  \/ InitSchemaDone
  \/ RebaseDone
  \/ EnvGetReply
  \/ EnvSetDone
  \/ EnvDelDone
  \/ EnvShowReply
  \/ CloseDone

SpecEnv == InitEnvSpec /\ [][EnvNext]_vars


\* ------------------------------------------------------------------------
\* Properties of the command line
\* ------------------------------------------------------------------------

\* C5: while `mini <path>` runs with --opts=dryrun, no 'http_server.put'
\* call is issued
C5_DryrunNeverPuts ==
  (cmd.name = "mini" /\ cmd.opts = "dryrun") => "http_server.put" \notin Range(rlog)

\* the commands C6 speaks of: all but the interactive repl
scripted == cmd.name \in {"serve", "install", "mini", "env"}
              \/ (cmd.name = "repl" /\ cmd.script # "none")

\* C6: a command that has exited has status 0 only if no error occurred
\* while it ran, and status 1 whenever one did, an error thrown by the
\* executed script included
C6_ExitStatusTellsError ==
  (cpc = "exited" /\ scripted) =>
    /\ exitCode = 0 => ~errored
    /\ errored => exitCode = 1

pushed == cmd.name = "env" /\ cmd.sub = "push"

\* C7: once `env push` has completed successfully the remote env is exactly
\* the local entries, keys upper-cased, reserved keys left out
C7_PushMakesRemoteLocal ==
  (pushed /\ cpc = "exited" /\ exitCode = 0) => remoteEnv = _getEnv(config)

\* C8 as stated: no setEnv and no delEnv call of `env push` names a key
\* that starts with HOCTAIL_
C8_NoReservedKeyInAnyCall ==
  \A c \in env.calls : ~startsWith(c.key, Prefix)

\* C8: no setEnv call of `env push` names a key that starts with HOCTAIL_,
\* and a delEnv call names such a key only if the remote env held it when
\* the command read it
C8_ReservedKeyOnlyDeleted ==
  \A c \in env.calls :
    startsWith(c.key, Prefix) => (c.op = "delEnv" /\ c.key \in keysOf(env.remote))

\* a push of a file with a reserved key, lower-cased in the file, against a
\* remote env that holds a reserved key: setEnv and delEnv were both issued
C8_Witness ==
  /\ pushed
  /\ \E i \in DOMAIN config : config[i].k = KeyLowerReserved
  /\ \E c \in env.calls : c.op = "setEnv"
  /\ [op |-> "delEnv", key |-> KeyReserved] \in env.calls
  /\ cpc = "exited"
  /\ exitCode = 0

\* ------------------------------------------------------------------------
\* _ensureApp and initApp on one client (NodeClient.js)
\* ------------------------------------------------------------------------

\* the app as the server may hold it when the first call is made
ServerStates ==
  [state : {"null", "created", "started"}, tree : BOOLEAN]

InitEnsureSpec ==
  /\ InitPack
  /\ InitInstall
  /\ InitCli
  /\ InitEnv
  /\ epc = [p \in Ensures |-> "idle"]
  /\ server \in ServerStates
  /\ elog = [p \in Ensures |-> <<>>]
  /\ InitBundle
  /\ InitNode

\* invocation p moves on, having sent or received ops
ensureGoto(p, label, ops) ==
  /\ epc' = [epc EXCEPT ![p] = label]
  /\ elog' = [elog EXCEPT ![p] = @ \o ops]

\* invocations are interchangeable: they are numbered in the order in which
\* they start
ensureStartsNext(p) == epc[p] = "idle" /\ \A q \in Ensures : q < p => epc[q] # "idle"

\* _ensureApp up to the await in getAppState: this.app is set, and
\* 'http_server.get_state' is called
EnsureStart(p) ==
  /\ epc[p] = "idle"
  /\ ensureGoto(p, "getState", <<"_ensureApp", "http_server.get_state">>)
  /\ UNCHANGED server
  /\ UNCHANGED <<packVars, installVars, cliVars, envVars, bundle, nodeVars>>

\* initApp called by itself, up to the await of hasTree()
InitAppStart(p) ==
  /\ epc[p] = "idle"
  /\ ensureGoto(p, "hasTree", <<"initApp", "hasTree">>)
  /\ UNCHANGED server
  /\ UNCHANGED <<packVars, installVars, cliVars, envVars, bundle, nodeVars>>

\* the app state arrives: null throws, 'created' calls initApp, whose first
\* step is hasTree(); any other state ends _ensureApp
EnsureStateReply(p) ==
  /\ epc[p] = "getState"
  /\ CASE server.state = "null" ->
            ensureGoto(p, "failed", <<"state.null">>)
       [] server.state = "created" ->
            ensureGoto(p, "hasTree", <<"state.created", "hasTree">>)
       [] OTHER ->
            ensureGoto(p, "done", <<"state.started">>)
  /\ UNCHANGED server
  /\ UNCHANGED <<packVars, installVars, cliVars, envVars, bundle, nodeVars>>

\* initApp without the hasTree() test: the schema is initialised whatever the
\* reply
EnsureTreeReplyAlways(p) ==
  /\ epc[p] = "hasTree"
  /\ ensureGoto(p, "initSchema",
       <<IF server.tree THEN "tree.true" ELSE "tree.false", "public.init_schema">>)
  /\ UNCHANGED server
  /\ UNCHANGED <<packVars, installVars, cliVars, envVars, bundle, nodeVars>>

\* hasTree() arrives: an initialised app needs nothing, otherwise
\* 'public.init_schema' is called
EnsureTreeReply(p) ==
  /\ epc[p] = "hasTree"
  /\ IF server.tree
       THEN ensureGoto(p, "done", <<"tree.true">>)
       ELSE ensureGoto(p, "initSchema", <<"tree.false", "public.init_schema">>)
  /\ UNCHANGED server
  /\ UNCHANGED <<packVars, installVars, cliVars, envVars, bundle, nodeVars>>

\* 'public.init_schema' resolved (the app has its tree now): 'public.rebase'
\* is called
EnsureSchemaDone(p) ==
  /\ epc[p] = "initSchema"
  /\ server' = [server EXCEPT !.tree = TRUE]
  /\ ensureGoto(p, "rebase", <<"public.init_schema.ok", "public.rebase">>)
  /\ UNCHANGED <<packVars, installVars, cliVars, envVars, bundle, nodeVars>>

\* 'public.rebase' resolved: initApp is finished
EnsureRebaseDone(p) ==
  /\ epc[p] = "rebase"
  /\ ensureGoto(p, "done", <<"public.rebase.ok">>)
  /\ UNCHANGED server
  /\ UNCHANGED <<packVars, installVars, cliVars, envVars, bundle, nodeVars>>

\* an awaited call rejects: the invocation rejects
EnsureCallFail(p) ==
  /\ epc[p] \in {"getState", "hasTree", "initSchema", "rebase"}
  /\ ensureGoto(p, "failed", <<"rejected">>)
  /\ UNCHANGED server
  /\ UNCHANGED <<packVars, installVars, cliVars, envVars, bundle, nodeVars>>

EnsureNext ==
  \E p \in Ensures :
    \/ ensureStartsNext(p) /\ EnsureStart(p)
    \/ ensureStartsNext(p) /\ InitAppStart(p)
    \/ EnsureStateReply(p)
    \/ EnsureTreeReply(p)
    \/ EnsureSchemaDone(p)
    \/ EnsureRebaseDone(p)
    \/ EnsureCallFail(p)

SpecEnsure == InitEnsureSpec /\ [][EnsureNext]_vars

\* ------------------------------------------------------------------------
\* Properties of _ensureApp and initApp
\* ------------------------------------------------------------------------

\* positions of the log of invocation p where op was logged
atOf(p, op) == { i \in DOMAIN elog[p] : elog[p][i] = op }

\* invocation p is inside initApp, between its 'public.init_schema' call and
\* the end of its 'public.rebase'
initialising(p, at) == at[p] \in {"initSchema", "rebase"}

\* C11: 'public.init_schema' is not issued while another invocation's
\* initialisation of the app is still unfinished
C11_NoConcurrentInitSchema ==
  [][\A p \in Ensures :
       (epc[p] # "initSchema" /\ epc'[p] = "initSchema") =>
         \A q \in Ensures \ {p} : ~initialising(q, epc)]_vars

\* the invocations that are _ensureApp calls
ensured(p) == atOf(p, "_ensureApp") # {}

\* invocation p issued neither 'public.init_schema' nor 'public.rebase'
issuedNeither(p) ==
  atOf(p, "public.init_schema") = {} /\ atOf(p, "public.rebase") = {}

\* invocation p issued 'public.rebase' only after its 'public.init_schema'
\* had resolved
rebaseAfterSchema(p) ==
  \A j \in atOf(p, "public.rebase") :
    \E i \in atOf(p, "public.init_schema.ok") : i < j

\* C12 as stated: an _ensureApp that found the state 'created' and has
\* returned issued 'public.init_schema' and, after it resolved,
\* 'public.rebase'; one that found another state issued neither
C12_CreatedAlwaysInitialises ==
  \A p \in Ensures :
    ensured(p) =>
      /\ (atOf(p, "state.created") # {} /\ epc[p] = "done") =>
           (atOf(p, "public.init_schema") # {} /\ atOf(p, "public.rebase") # {})
      /\ rebaseAfterSchema(p)
      /\ atOf(p, "state.created") = {} => issuedNeither(p)

\* C12: an _ensureApp that found the state 'created' and no tree, and has
\* returned, issued 'public.init_schema' and, only after it resolved,
\* 'public.rebase'; one that found another state, or found the tree, issued
\* neither
C12_CreatedWithoutTreeInitialises ==
  \A p \in Ensures :
    ensured(p) =>
      /\ (atOf(p, "state.created") # {} /\ atOf(p, "tree.false") # {}
            /\ epc[p] = "done") =>
           (atOf(p, "public.init_schema") # {} /\ atOf(p, "public.rebase") # {})
      /\ rebaseAfterSchema(p)
      /\ (atOf(p, "state.created") = {} \/ atOf(p, "tree.true") # {}) =>
           issuedNeither(p)

\* an _ensureApp that found 'created' and no tree has run to its end, and
\* another one that found the tree has returned
C12_Witness ==
  \E p, q \in Ensures :
    /\ ensured(p) /\ ensured(q)
    /\ atOf(p, "state.created") # {} /\ atOf(p, "public.rebase.ok") # {}
    /\ epc[p] = "done"
    /\ atOf(q, "state.created") # {} /\ atOf(q, "tree.true") # {}
    /\ epc[q] = "done"

\* ------------------------------------------------------------------------
\* Properties of the installed-module cache
\* ------------------------------------------------------------------------

fetchRejected(p) == "npm.installed.fail" \in Range(trace[p])

C14_CacheAssignedOnce ==
  [][installed.loaded => installed' = installed]_vars

\* ------------------------------------------------------------------------
\* Properties of the configuration builder
\* ------------------------------------------------------------------------

\* `main` is a directory with no package.json directly inside it
dirWithoutManifest(m) ==
  isDirectory(m) /\ ~existsSync(join(m, <<"package.json">>))

\* `main` is a package directory whose entry point is not on disk
entryPointMissing(m) ==
  /\ isDirectory(m)
  /\ existsSync(join(m, <<"package.json">>))
  /\ ~existsSync(join(m, Manifest(join(m, <<"package.json">>)).main))
  /\ ~existsSync(join(m, <<"index.js">>))

\* _getConfig has run for invocation p with the installed set loaded
configTried(p) == pc[p] \notin {"idle", "loadWait", "loaded"} /\ ~fetchRejected(p)

\* C15: with the installed set loaded, a missing `main`, a directory without
\* package.json and a missing entry point each make the call fail with a
\* "doesn't exist" error, and no bundle is written
C15_PathErrors ==
  \A p \in Calls :
    configTried(p) =>
      /\ ~existsSync(main[p]) =>
           (pc[p] = "failed" /\ err[p] = "Path <main> doesn't exist" /\ ~cfg[p].built)
      /\ dirWithoutManifest(main[p]) =>
           (pc[p] = "failed" /\ err[p] = "Path <pkgPath> doesn't exist" /\ ~cfg[p].built)
      /\ entryPointMissing(main[p]) =>
           (pc[p] = "failed" /\ err[p] = "Entry point <entryPoint> doesn't exist"
              /\ ~cfg[p].built)

\* path p is dir or lies below it
within(p, dir) == Len(p) >= Len(dir) /\ SubSeq(p, 1, Len(dir)) = dir

\* `main` is a directory with a package.json directly inside it
packageDir(m) == isDirectory(m) /\ existsSync(join(m, <<"package.json">>))

\* C16: for a directory with a package.json, the entry point of the
\* configuration lies inside the directory and pkg.name is the name the
\* package.json declares
C16_EntryInsidePackage ==
  \A p \in Calls :
    (packageDir(main[p]) /\ cfg[p].built /\ opt[p] = "none") =>
      /\ within(cfg[p].entry, main[p])
      /\ cfg[p].pkg = [isNull |-> FALSE,
                       name |-> Manifest(join(main[p], <<"package.json">>)).name]

\* the package directories at or above dir
enclosingPkgDirs(dir) ==
  { d \in Dirs : within(dir, d) /\ join(d, <<"package.json">>) \in Files }

\* the metadata of the package.json in dir, as pkg
pkgOf(dir) ==
  [isNull |-> FALSE, name |-> Manifest(join(dir, <<"package.json">>)).name]

BundlePath == <<".hoctail", "bundle.js">>

\* C17: the output file is <main>/.hoctail/bundle.js for a directory, the
\* nearest enclosing package directory's for a file that has one (with that
\* package's metadata as pkg), and the temp directory's with pkg null for a
\* file that has none; a directory without its own package.json is rejected
\* whatever its ancestors hold
C17_OutputFile ==
  \A p \in Calls :
    /\ (cfg[p].built /\ opt[p] = "none") =>
         LET up == enclosingPkgDirs(dirname(main[p]))
         IN  /\ isDirectory(main[p]) =>
                  /\ cfg[p].outFile = join(main[p], BundlePath)
                  /\ cfg[p].pkg = pkgOf(main[p])
             /\ (~isDirectory(main[p]) /\ up # {}) =>
                  \E d \in up :
                    /\ \A d2 \in up : Len(d2) <= Len(d)
                    /\ cfg[p].outFile = join(d, BundlePath)
                    /\ cfg[p].pkg = pkgOf(d)
             /\ (~isDirectory(main[p]) /\ up = {}) =>
                  /\ cfg[p].outFile = join(TmpDir, BundlePath)
                  /\ cfg[p].pkg.isNull
    /\ (configTried(p) /\ dirWithoutManifest(main[p])) =>
         (pc[p] = "failed" /\ ~cfg[p].built)

\* a file below two nested packages got the inner one, and a file with no
\* package above it got the temp directory
C17_Witness ==
  /\ main[1] = <<"w", "app", "dep", "x.js">>
  /\ opt[1] = "none"
  /\ cfg[1].built
  /\ cfg[1].outFile = <<"w", "app", "dep", ".hoctail", "bundle.js">>
  /\ main[2] = <<"tmp", "one.js">>
  /\ opt[2] = "none"
  /\ cfg[2].built
  /\ cfg[2].pkg.isNull

\* ------------------------------------------------------------------------
\* One rollup output: the source-map path transform and the output plugin
\* (utils.js)
\* ------------------------------------------------------------------------

\* segments of a rendered source path
MaxSegments == 3

\* characters of a chunk's code
MaxCode == 3

\* path.sep
Sep == <<"/">>

Up == <<".", ".">>

SegDir == <<"s">>

SegFile == <<"x">>

RECURSIVE joinPath(_)
joinPath(segs) ==
  IF Len(segs) = 1 THEN segs[1] ELSE segs[1] \o Sep \o joinPath(Tail(segs))

\* relative paths from the bundle's directory to a source file
SourcePaths ==
  { joinPath(s) : s \in
      { t \in UNION { [1 .. n -> {Up, SegDir, SegFile}] : n \in 1 .. MaxSegments } :
          \A i \in DOMAIN t : (t[i] = SegFile) <=> (i = Len(t)) } }

\* a package name as characters
chars(name) ==
  CASE name = "app" -> <<"a", "p", "p">>
    [] name = "dep" -> <<"d", "e", "p">>
    [] name = "lib" -> <<"l", "i", "b">>
    [] OTHER -> <<"m">>

\* the places where pat occurs in str
occurrences(str, pat) ==
  { i \in 1 .. Len(str) - Len(pat) + 1 : SubSeq(str, i, i + Len(pat) - 1) = pat }

\* a replace that changes every occurrence of "../" in a relative path whose
\* parent segments come first
RECURSIVE replaceEach(_, _, _)
replaceEach(str, pat, new) ==
  IF Len(str) >= Len(pat) /\ SubSeq(str, 1, Len(pat)) = pat
    THEN new \o replaceEach(SubSeq(str, Len(pat) + 1, Len(str)), pat, new)
  ELSE IF str = <<>>
    THEN <<>>
    ELSE <<Head(str)>> \o replaceEach(Tail(str), pat, new)

\* String.prototype.replace with a string pattern: the first occurrence only
replaceFirst(str, pat, new) ==
  LET hits == occurrences(str, pat)
  IN  IF hits = {}
        THEN str
        ELSE LET i == CHOOSE h \in hits : \A g \in hits : h <= g
             IN  SubSeq(str, 1, i - 1) \o new \o SubSeq(str, i + Len(pat), Len(str))

\* output.sourcemapPathTransform of _getConfig, for a pkg that is not null
sourcemapPathTransform(sourcePath, pkg) ==
  replaceFirst(sourcePath, Up \o Sep, chars(pkg.name) \o Sep)

LF == "\n"

CodeChars == {"a", ";", LF}

Codes == UNION { [1 .. n -> CodeChars] : n \in 0 .. MaxCode }

WrapPrefix ==
  <<"(", "f", "u", "n", "c", "t", "i", "o", "n", " ", "(", ")", "{", " ">>

WrapSuffix == <<"}", ")", "(", ")", LF>>

\* a wrapper that opens on a line of its own
wrapOnOwnLine(code) == WrapPrefix \o <<LF>> \o code \o WrapSuffix

\* magicString.prepend('(function (){ '); magicString.append('})()\n')
wrap(code) == WrapPrefix \o code \o WrapSuffix

ChunkIds == {"bundle.js", "chunk.js"}

\* the bundle handed to generateBundle: the entry chunk, and perhaps a second
ChunkLists ==
  { <<[id |-> "bundle.js", code |-> c]>> : c \in Codes }
    \cup { <<[id |-> "bundle.js", code |-> c], [id |-> "chunk.js", code |-> <<"a", LF>>]>> :
             c \in Codes }

\* createFilter(options.include, options.exclude) with ids as patterns
filter(id, exclude) == id \notin exclude

\* generateBundle of the output plugin
generateBundle(chunks, exclude) ==
  [i \in DOMAIN chunks |->
     IF filter(chunks[i].id, exclude)
       THEN [chunks[i] EXCEPT !.code = wrap(@)]
       ELSE chunks[i]]

others == <<packVars, installVars, cliVars, envVars, ensureVars, nodeVars>>

\* rollup starts to render an output with the configuration of pack
RenderStart(pkg, exclude) ==
  /\ bundle.stage = "idle"
  /\ bundle' = [bundle EXCEPT !.stage = "render", !.pkg = pkg, !.exclude = exclude]
  /\ UNCHANGED others

\* rollup hands a source path of the source map to the transform; reading
\* pkg.name of a null pkg throws
TransformSource(sourcePath) ==
  /\ bundle.stage = "render"
  /\ Len(bundle.sources) < MaxSources
  /\ IF bundle.pkg.isNull
       THEN bundle' = [bundle EXCEPT !.stage = "failed"]
       ELSE bundle' = [bundle EXCEPT !.sources = Append(@,
                         [from |-> sourcePath,
                          to   |-> sourcemapPathTransform(sourcePath, bundle.pkg)])]
  /\ UNCHANGED others

\* rollup calls the generateBundle hook with the rendered chunks
GenerateBundle(chunks) ==
  /\ bundle.stage = "render"
  /\ bundle' = [bundle EXCEPT !.stage = "generated",
                              !.before = chunks,
                              !.after = generateBundle(chunks, bundle.exclude)]
  /\ UNCHANGED others

BundleNext ==
  \/ \E pkg \in {NoPkg, pkgOf(<<"w", "app">>)}, exclude \in SUBSET ChunkIds :
       RenderStart(pkg, exclude)
  \/ \E sourcePath \in SourcePaths : TransformSource(sourcePath)
  \/ \E chunks \in ChunkLists : GenerateBundle(chunks)

SpecBundle == Init /\ [][BundleNext]_vars

\* ------------------------------------------------------------------------
\* Properties of the rollup output
\* ------------------------------------------------------------------------

UpSep == Up \o Sep

\* C18 as stated: no "../" is left in a transformed source path
C18_NoParentSegmentLeft ==
  \A i \in DOMAIN bundle.sources : occurrences(bundle.sources[i].to, UpSep) = {}

\* C18: the first "../" of a source path is rewritten to the package name
\* and the separator, and the rest of the path, later "../" included, is as
\* it was; a path without "../" is unchanged
C18_FirstParentSegmentRewritten ==
  \A i \in DOMAIN bundle.sources :
    LET from == bundle.sources[i].from
        to   == bundle.sources[i].to
        name == chars(bundle.pkg.name)
        hits == occurrences(from, UpSep)
    IN  IF hits = {}
          THEN to = from
          ELSE \E h \in hits :
                 /\ \A g \in hits : h <= g
                 /\ SubSeq(to, 1, h - 1) = SubSeq(from, 1, h - 1)
                 /\ SubSeq(to, h, h + Len(name)) = name \o Sep
                 /\ SubSeq(to, h + Len(name) + 1, Len(to))
                      = SubSeq(from, h + Len(UpSep), Len(from))
                 /\ Cardinality(occurrences(to, UpSep)) = Cardinality(hits) - 1

\* a path with two "../" went through the transform
C18_Witness ==
  \E i \in DOMAIN bundle.sources :
    /\ bundle.sources[i].from = joinPath(<<Up, Up, SegFile>>)
    /\ bundle.sources[i].to = joinPath(<<chars("app"), Up, SegFile>>)

\* the line of position i of a text
lineOf(text, i) == 1 + Cardinality({ j \in 1 .. i - 1 : text[j] = LF })

\* the text from position i on begins with part
hasAt(text, i, part) == SubSeq(text, i, i + Len(part) - 1) = part

\* every position of the original code is found, with its character and on
\* its line, behind a prefix of the given length
sameLines(code, wrapped, shift) ==
  \A i \in DOMAIN code :
    /\ wrapped[shift + i] = code[i]
    /\ lineOf(wrapped, shift + i) = lineOf(code, i)

Opening == <<"(", "f", "u", "n", "c", "t", "i", "o", "n", " ", "(", ")", "{", " ">>

Closing == <<"}", ")", "(", ")">>

\* C19 as stated: an accepted chunk is the prefix `(function (){ `, its
\* code and the suffix `})()` and nothing else, a rejected chunk is
\* unchanged, and every statement keeps its line
C19_WrappedExactly ==
  \A i \in DOMAIN bundle.after :
    LET code == bundle.before[i].code
        out  == bundle.after[i].code
    IN  /\ bundle.after[i].id = bundle.before[i].id
        /\ IF filter(bundle.before[i].id, bundle.exclude)
             THEN /\ out = Opening \o code \o Closing
                  /\ sameLines(code, out, Len(Opening))
             ELSE out = code

\* C19: an accepted chunk is the prefix `(function (){ `, its code, the
\* suffix `})()` and one line break at the end; a rejected chunk is
\* unchanged; every statement keeps its line
C19_WrappedWithLineBreak ==
  \A i \in DOMAIN bundle.after :
    LET code == bundle.before[i].code
        out  == bundle.after[i].code
    IN  /\ bundle.after[i].id = bundle.before[i].id
        /\ IF filter(bundle.before[i].id, bundle.exclude)
             THEN /\ Len(out) = Len(Opening) + Len(code) + Len(Closing) + 1
                  /\ hasAt(out, 1, Opening)
                  /\ hasAt(out, Len(Opening) + 1, code)
                  /\ hasAt(out, Len(Opening) + Len(code) + 1, Closing)
                  /\ out[Len(out)] = LF
                  /\ sameLines(code, out, Len(Opening))
             ELSE out = code

\* a chunk of two lines was wrapped and another chunk was left alone
C19_Witness ==
  /\ bundle.stage = "generated"
  /\ bundle.exclude = {"chunk.js"}
  /\ Len(bundle.after) = 2
  /\ bundle.before[1].code = <<"a", LF, "a">>
  /\ bundle.after[1].code # bundle.before[1].code
  /\ bundle.after[2].code = bundle.before[2].code

\* ------------------------------------------------------------------------
\* Properties of the command line without credentials
\* ------------------------------------------------------------------------

\* C20: a command invoked with no API key makes no connect call and no
\* remote call, and its process ends with an error and status 1
C20_NoKeyFailsFast ==
  (cmd.name # "" /\ ~cmd.key) =>
    /\ rlog = <<>>
    /\ cpc = "exited" => (errored /\ exitCode = 1)

\* ------------------------------------------------------------------------
\* Signals (Cli.js)
\* ------------------------------------------------------------------------

\* signals one process receives
MaxSignals == 2

Signals == {"SIGINT", "SIGTERM"}

\* the status of a process that a signal ended: 128 + the signal's number
killedBy(s) == IF s = "SIGINT" THEN 128 + 2 ELSE 128 + 15

\* process.on('SIGINT', die) and process.on('SIGTERM', die) have run: only
\* the action of repl registers them, once connect has resolved
handlersRegistered ==
  /\ cmd.name = "repl"
  /\ cmd.replAwait
  /\ cpc \in {"prompt", "repl", "getState", "hasTree", "initSchema", "rebase",
              "script", "dying"}

\* a signal reaches the running process: die when the handlers are
\* registered, else the signal's default action ends the process
Signal(s) ==
  /\ cpc \notin {"start", "exited"}
  /\ Len(sig) < MaxSignals
  /\ sig' = Append(sig, s)
  /\ IF handlersRegistered
       THEN die(rlog)
       ELSE /\ exitCode' = killedBy(s)
            /\ cpc' = "exited"
            /\ UNCHANGED rlog
  /\ UNCHANGED <<cmd, errored, spawned, packVars, installVars, envVars>>
  /\ UNCHANGED <<ensureVars, bundle, repl, unit, procs>>

SignalNext ==
  \/ \E c \in withOptions(ServeCommands \cup InstallCommands \cup MiniCommands
                            \cup ReplCommands) : CliStart(c)
  \/ ParentExit
  \/ ConnectDone
  \/ AwaitFail
  \/ \E state \in AppStates : GetStateReply(state)
  \/ \E initialized \in BOOLEAN : HasTreeReply(initialized)
  \/ InitSchemaDone
  \/ RebaseDone
  \/ \E reply \in Replies : LoadReply(1, reply)
  \/ LoadFail(1)
  \/ BuildConfig(1)
  \/ RollupDone(1)
  \/ RollupFail(1)
  \/ \E n \in 0 .. MaxSources : WriteDone(1, n)
  \/ AfterPack(1)
  \/ RestartDone(1)
  \/ RestartFail(1)
  \/ InstallDone(1)
  \/ InstallFail(1)
  \/ CliInstallDone
  \/ CliInstallFail
  \/ UrlDone
  \/ \E appType \in AppTypes : AppTypeReply(appType)
  \/ MiniConfigLoaded
  \/ MiniRollupDone
  \/ MiniWriteDone
  \/ PutDone
  \/ CloseDone
  \/ ScriptDone
  \/ ScriptThrow
  \/ PromptDone
  \/ ReplExit
  \/ TerminateDone
  \/ DieTimeout
  \/ \E s \in Signals : Signal(s)

SpecSignal == Init /\ [][SignalNext]_vars

\* C21: once SIGINT or SIGTERM has been delivered to a process that runs a
\* command, client.terminate has been requested.
C21_SignalRequestsTerminate ==
  sig # <<>> => "terminate" \in Range(rlog)

\* ------------------------------------------------------------------------
\* The interactive repl (Cli.js, _launchRepl)
\* ------------------------------------------------------------------------

\* meta-commands entered in one session
MaxMeta == 2

\* r.defineCommand(...)
MetaCommands == {"sql", "logs", "http_server_log", "http_client_log", "relations"}

\* the call of the client that the action of a meta-command makes first
firstCall(c) ==
  CASE c = "sql" -> "query"
    [] c = "logs" -> "tailLogs"
    [] c \in {"http_server_log", "http_client_log"} -> "tailHttpLogs"
    [] c = "relations" -> "wait"

\* the repl process once _launchRepl has returned: the state of the command
\* line after CliStart, ConnectDone and PromptDone
InitReplSpec ==
  /\ InitPack /\ InitInstall /\ InitEnv /\ InitEnsure /\ InitBundle /\ InitNode
  /\ cmd = [NoCmd EXCEPT !.name = "repl", !.key = TRUE, !.app = TRUE,
                         !.replAwait = TRUE]
  /\ cpc = "repl"
  /\ rlog = <<"connect", "user">>
  /\ exitCode = -1
  /\ errored = FALSE
  /\ spawned = 0

\* console.dir / console.log / console.error / displayPrompt, in order
show(whats) ==
  repl.out \o [i \in 1 .. Len(whats) |-> [n |-> repl.n, what |-> whats[i]]]

\* a line that starts with a dot and the name of a meta-command is entered:
\* clearBufferedCommand, then the first call is made
MetaStart(c) ==
  /\ cpc = "repl"
  /\ repl.meta = ""
  /\ repl.n < MaxMeta
  /\ repl' = [repl EXCEPT !.n = @ + 1, !.meta = c, !.await = firstCall(c)]
  /\ UNCHANGED <<base, sig, unit, procs>>

\* the promise that ends the action is fulfilled: then prints the result,
\* finally redisplays the prompt
CallResolved ==
  /\ cpc \in {"repl", "dying"}
  /\ repl.await \in {"query", "tailLogs", "tailHttpLogs", "public.relations"}
  /\ repl' = [repl EXCEPT !.meta = "", !.await = "",
                          !.out = show(<<"result", "prompt">>)]
  /\ UNCHANGED <<base, sig, unit, procs>>

\* it is rejected: catch prints the error, finally redisplays the prompt
CallRejected ==
  /\ cpc \in {"repl", "dying"}
  /\ repl.await \in {"query", "tailLogs", "tailHttpLogs", "public.relations"}
  /\ repl' = [repl EXCEPT !.meta = "", !.await = "",
                          !.out = show(<<"error", "prompt">>)]
  /\ UNCHANGED <<base, sig, unit, procs>>

\* .relations, client.wait(...) fulfilled: the callback of then starts
\* client.call('public.relations') and returns undefined, so the outer chain
\* settles in the same turn of the event loop and its finally redisplays the
\* prompt before any reply can arrive
WaitResolved ==
  /\ cpc \in {"repl", "dying"}
  /\ repl.await = "wait"
  /\ repl' = [repl EXCEPT !.await = "public.relations",
                          !.out = show(<<"prompt">>)]
  /\ UNCHANGED <<base, sig, unit, procs>>

\* .relations, client.wait(...) rejected: the outer catch and finally
WaitRejected ==
  /\ cpc \in {"repl", "dying"}
  /\ repl.await = "wait"
  /\ repl' = [repl EXCEPT !.meta = "", !.await = "",
                          !.out = show(<<"error", "prompt">>)]
  /\ UNCHANGED <<base, sig, unit, procs>>

ReplNext ==
  \/ \E c \in MetaCommands : MetaStart(c)
  \/ CallResolved
  \/ CallRejected
  \/ WaitResolved
  \/ WaitRejected
  \/ ReplExit
  \/ TerminateDone
  \/ DieTimeout

SpecRepl == InitReplSpec /\ [][ReplNext]_vars

\* positions of the output where meta-command n showed something of `whats`
shownBy(n, whats) ==
  { i \in DOMAIN repl.out : repl.out[i].n = n /\ repl.out[i].what \in whats }

\* C22: for every meta-command and every outcome of its calls, the result or
\* the error is printed, and the prompt is redisplayed exactly once and only
\* after that output: never while the action is unfinished.
C22_PromptOnceAfterOutput ==
  \A n \in 1 .. repl.n :
    IF n = repl.n /\ repl.meta # ""
      THEN shownBy(n, {"prompt"}) = {}
      ELSE /\ Cardinality(shownBy(n, {"prompt"})) = 1
           /\ Cardinality(shownBy(n, {"result", "error"})) = 1
           /\ \A i \in shownBy(n, {"result", "error"}) :
                \A j \in shownBy(n, {"prompt"}) : i < j

\* ------------------------------------------------------------------------
\* The application identifier (NodeClient.js, parseApp and getAppState)
\* ------------------------------------------------------------------------

\* characters of an application identifier
MaxApp == 3

Slash == "/"

AppChars == {"o", "n", Slash}

\* identifiers as sequences of characters, the empty one included
AppNames == UNION { [1 .. k -> AppChars] : k \in 0 .. MaxApp }

\* an optional string: undefined, or the characters
Undefined == [t |-> "undefined", s |-> <<>>]
Str(s) == [t |-> "string", s |-> s]

\* String.prototype.split with a one-character separator: the pieces between
\* the separators, empty pieces included
RECURSIVE split(_, _)
split(s, sep) ==
  IF \A i \in DOMAIN s : s[i] # sep
    THEN <<s>>
    ELSE LET i == CHOOSE j \in DOMAIN s :
                    s[j] = sep /\ \A k \in 1 .. j - 1 : s[k] # sep
         IN  <<SubSeq(s, 1, i - 1)>> \o split(SubSeq(s, i + 1, Len(s)), sep)

\* destructuring [owner, name] of an array: a missing element is undefined
element(parts, i) == IF i <= Len(parts) THEN Str(parts[i]) ELSE Undefined

parseApp(appName) ==
  LET owner == element(split(appName, Slash), 1)
      name == element(split(appName, Slash), 2)
  IN  IF name.t = "undefined"
        THEN [owner |-> Undefined, name |-> owner]
        ELSE [owner |-> owner, name |-> name]

\* a command is started with --app or HOCTAIL_APP set to any identifier
InitAppSpec ==
  /\ InitPack /\ InitInstall /\ InitCli /\ InitEnv /\ InitEnsure /\ InitBundle
  /\ sig = <<>> /\ repl = NoRepl /\ procs = <<>>
  /\ unit \in { [op |-> "app", app |-> a, pc |-> "start", parsed |-> parseApp(a),
                 called |-> Undefined] : a \in AppNames }

\* createClient: `!client.app` is the only test of the identifier
CreateClient ==
  /\ unit.op = "app"
  /\ unit.pc = "start"
  /\ unit' = [unit EXCEPT !.pc = IF unit.app = <<>> THEN "exit1" ELSE "created"]
  /\ UNCHANGED <<base, sig, repl, procs>>

\* getAppState() of _ensureApp: name = parseApp(this.app).name is sent with
\* 'http_server.get_state'
GetAppState ==
  /\ unit.op = "app"
  /\ unit.pc = "created"
  /\ unit' = [unit EXCEPT !.pc = "getState", !.called = parseApp(unit.app).name]
  /\ UNCHANGED <<base, sig, repl, procs>>

\* the reply: null is thrown as `App "<name>" does not exist`, and the
\* command exits with 1; anything else lets the command go on
AppStateReply(exists) ==
  /\ unit.op = "app"
  /\ unit.pc = "getState"
  /\ unit' = [unit EXCEPT !.pc = IF exists THEN "ensured" ELSE "exit1"]
  /\ UNCHANGED <<base, sig, repl, procs>>

AppNext ==
  \/ CreateClient
  \/ GetAppState
  \/ \E exists \in BOOLEAN : AppStateReply(exists)

SpecApp == InitAppSpec /\ [][AppNext]_vars

\* `name` or `owner/name`, no part empty
wellFormed(a) ==
  /\ Len(split(a, Slash)) \in {1, 2}
  /\ \A i \in DOMAIN split(a, Slash) : split(a, Slash)[i] # <<>>

\* C23: a malformed identifier makes the process exit 1 before any remote
\* call uses it; for a well-formed one parseApp returns owner undefined and
\* name = s without '/', and the two parts of `owner/name`.
C23_MalformedAppRejected ==
  unit.op = "app" =>
    /\ ~wellFormed(unit.app) =>
         /\ unit.called = Undefined
         /\ unit.pc \in {"start", "exit1"}
    /\ wellFormed(unit.app) =>
         IF Len(split(unit.app, Slash)) = 1
           THEN unit.parsed = [owner |-> Undefined, name |-> Str(unit.app)]
           ELSE /\ unit.parsed.owner.t = "string"
                /\ unit.parsed.name.t = "string"
                /\ unit.parsed.owner.s \o <<Slash>> \o unit.parsed.name.s = unit.app

\* ------------------------------------------------------------------------
\* Properties of mini
\* ------------------------------------------------------------------------

Null == [t |-> "null", s |-> <<>>]

\* a value given as an option, and one given in the environment
OptValue == Str(<<"o">>)
EnvValue == Str(<<"n">>)

DefaultEndpoint == Str(<<"wss://api.hoctail.io">>)
Public == Str(<<"public">>)

\* what `if (v)` takes for true: not undefined, not null, not ''
truthy(v) == v.t = "string" /\ v.s # <<>>

\* a || b taken for `present or else`: a whenever a property is there
orPresent(a, b) == IF a.t # "undefined" THEN a ELSE b

\* a || b
orElse(a, b) == IF truthy(a) THEN a ELSE b

\* the options object: a missing property is undefined
UserOptions ==
  [ baseURL  : {Undefined, OptValue},
    endpoint : {Undefined, Str(<<>>), OptValue},
    key      : {Undefined, Str(<<>>), OptValue},
    app      : {Undefined, Null, Str(<<>>), OptValue, Public},
    logLevel : {Undefined, Str(<<>>), OptValue} ]

\* process.env: a variable is unset, or a string that may be empty
ProcessEnvs ==
  [ HOCTAIL_ENDPOINT  : {Undefined, EnvValue},
    HOCTAIL_API_KEY   : {Undefined, Str(<<>>), EnvValue},
    HOCTAIL_APP       : {Undefined, Str(<<>>), EnvValue},
    HOCTAIL_LOG_LEVEL : {Undefined, EnvValue} ]

\* app != null
notNullish(v) == v.t \notin {"undefined", "null"}

\* thrown = TRUE is the 'No endpoint defined, check config' error
initOptions(options, penv) ==
  LET baseURL == orElse(orElse(orElse(options.baseURL, options.endpoint),
                               penv.HOCTAIL_ENDPOINT), DefaultEndpoint)
      key == orElse(options.key, penv.HOCTAIL_API_KEY)
      app == orElse(options.app, penv.HOCTAIL_APP)
      logLevel == orElse(options.logLevel, penv.HOCTAIL_LOG_LEVEL)
      schema == IF notNullish(app) THEN Null ELSE Public
  IN  [ thrown |-> ~truthy(baseURL), baseURL |-> baseURL, key |-> key,
        app |-> app, schema |-> schema, logLevel |-> logLevel ]

InitOptionsSpec ==
  /\ InitPack /\ InitInstall /\ InitCli /\ InitEnv /\ InitEnsure /\ InitBundle
  /\ sig = <<>> /\ repl = NoRepl /\ procs = <<>>
  /\ unit \in { [op |-> "initOptions", options |-> o, env |-> v, pc |-> "called",
                 result |-> Undefined] : o \in UserOptions, v \in ProcessEnvs }

\* initOptions returns, or throws
InitOptionsDone ==
  /\ unit.op = "initOptions"
  /\ unit.pc = "called"
  /\ unit' = [unit EXCEPT
       !.pc = IF initOptions(unit.options, unit.env).thrown THEN "thrown" ELSE "returned",
       !.result = initOptions(unit.options, unit.env)]
  /\ UNCHANGED <<base, sig, repl, procs>>

OptionsNext == InitOptionsDone

SpecOptions == InitOptionsSpec /\ [][OptionsNext]_vars

\* the option and the environment variable of each setting
Settings ==
  { [name |-> "baseURL", option |-> "endpoint", variable |-> "HOCTAIL_ENDPOINT"],
    [name |-> "key", option |-> "key", variable |-> "HOCTAIL_API_KEY"],
    [name |-> "app", option |-> "app", variable |-> "HOCTAIL_APP"],
    [name |-> "logLevel", option |-> "logLevel", variable |-> "HOCTAIL_LOG_LEVEL"] }

\* C25 as stated: each setting is the option whenever the option is present,
\* the environment variable only when it is absent; schema is 'public'
\* exactly when no app is resolved; the endpoint error is never raised.
C25_OptionWhenPresent ==
  (unit.op = "initOptions" /\ unit.pc # "called") =>
    /\ unit.pc = "returned"
    /\ unit.result.schema = Public <=> ~notNullish(unit.result.app)
    /\ \A x \in Settings :
         unit.options.baseURL = Undefined =>
           IF unit.options[x.option] # Undefined
             THEN unit.result[x.name] = unit.options[x.option]
             ELSE unit.result[x.name] \in {unit.env[x.variable], DefaultEndpoint}

\* C25: each setting is the option when the option is a non-empty string;
\* when it is undefined, null or '' the environment variable is used (for the
\* endpoint: options.baseURL first, and wss://api.hoctail.io last); schema is
\* 'public' exactly when the app so resolved is undefined or null; the
\* endpoint error is never raised.
C25_OptionWhenTruthy ==
  (unit.op = "initOptions" /\ unit.pc # "called") =>
    /\ unit.pc = "returned"
    /\ unit.result.schema = Public <=> ~notNullish(unit.result.app)
    /\ truthy(unit.options.baseURL) => unit.result.baseURL = unit.options.baseURL
    /\ \A x \in Settings :
         ~truthy(unit.options.baseURL) =>
           IF truthy(unit.options[x.option])
             THEN unit.result[x.name] = unit.options[x.option]
           ELSE IF x.name = "baseURL" /\ ~truthy(unit.env[x.variable])
             THEN unit.result[x.name] = DefaultEndpoint
           ELSE unit.result[x.name] = unit.env[x.variable]

C25_Witness ==
  /\ unit.op = "initOptions"
  /\ unit.pc = "returned"
  /\ unit.options.key = Str(<<>>)
  /\ unit.env.HOCTAIL_API_KEY = EnvValue
  /\ unit.result.key = EnvValue
  /\ unit.options.app = OptValue
  /\ unit.env.HOCTAIL_APP = EnvValue
  /\ unit.result.app = OptValue
  /\ unit.result.schema = Null

\* ------------------------------------------------------------------------
\* tailLogs (NodeClient.js)
\* ------------------------------------------------------------------------

\* the largest count of log lines asked for
MaxLines == 10

Integer(v) == [t |-> "integer", v |-> v]

\* values passed as latestLogsNumber: safe integers, -0, a fraction, NaN,
\* Infinity, an integer beyond Number.MAX_SAFE_INTEGER, a string, null, and
\* undefined for an argument that is left out
LogNumbers ==
  { Integer(v) : v \in -MaxLines .. MaxLines }
    \cup { [t |-> x, v |-> 0] :
             x \in {"-0", "fraction", "NaN", "Infinity", "unsafe", "string",
                    "null", "undefined"} }

\* latestLogsNumber = 10 for an argument that is undefined
defaultLines(n) == IF n.t = "undefined" THEN Integer(10) ELSE n

\* Number.isSafeInteger
isSafeInteger(n) == n.t \in {"integer", "-0"}

\* Math.abs(n) !== n, for a safe integer: -0 and 0 are equal under ===
absDiffers(n) == n.t = "integer" /\ n.v < 0

\* the test that throws 'Number of log lines should be integer > 0'
linesRejected(n) ==
  ~isSafeInteger(defaultLines(n)) \/ absDiffers(defaultLines(n))

InitLogsSpec ==
  /\ InitPack /\ InitInstall /\ InitCli /\ InitEnv /\ InitEnsure /\ InitBundle
  /\ sig = <<>> /\ repl = NoRepl /\ procs = <<>>
  /\ unit \in { [op |-> "tailLogs", n |-> n, levelOk |-> ok, pc |-> "called",
                 queries |-> 0] : n \in LogNumbers, ok \in BOOLEAN }

\* tailLogs up to its await: paseLogLevel (of the base class) returns or
\* throws, then the number is tested, then the query is issued
TailLogsCall ==
  /\ unit.op = "tailLogs"
  /\ unit.pc = "called"
  /\ unit' =
       IF ~unit.levelOk THEN [unit EXCEPT !.pc = "thrown level"]
       ELSE IF linesRejected(unit.n) THEN [unit EXCEPT !.pc = "thrown number"]
       ELSE [unit EXCEPT !.pc = "query", !.queries = @ + 1]
  /\ UNCHANGED <<base, sig, repl, procs>>

\* the query is answered, or fails
TailLogsReply(ok) ==
  /\ unit.op = "tailLogs"
  /\ unit.pc = "query"
  /\ unit' = [unit EXCEPT !.pc = IF ok THEN "returned" ELSE "rejected"]
  /\ UNCHANGED <<base, sig, repl, procs>>

LogsNext ==
  \/ TailLogsCall
  \/ \E ok \in BOOLEAN : TailLogsReply(ok)

SpecLogs == InitLogsSpec /\ [][LogsNext]_vars

\* an integer greater than 0, the default of 10 included
positiveInteger(n) == defaultLines(n).t = "integer" /\ defaultLines(n).v > 0

\* C26: tailLogs issues its query only when latestLogsNumber is an integer
\* greater than 0; for every other value it throws 'Number of log lines
\* should be integer > 0' and issues no query.
C26_QueryOnlyForPositive ==
  (unit.op = "tailLogs" /\ unit.levelOk /\ unit.pc # "called") =>
    IF positiveInteger(unit.n)
      THEN unit.pc \in {"query", "returned", "rejected"}
      ELSE unit.pc = "thrown number" /\ unit.queries = 0

\* ------------------------------------------------------------------------
\* The app of a client (NodeClient.js, constructor and the app accessors)
\* ------------------------------------------------------------------------

\* assignments to client.app after construction
MaxAssign == 3

\* values assigned to client.app
AppValues == {Public, OptValue, EnvValue, Str(<<>>), Null, Undefined}

\* new NodeClient(options): the object holds the app and the schema that
\* initOptions hands to the constructor of the base class; close has not
\* been called
newClient(options, penv) ==
  [ op |-> "client", app |-> initOptions(options, penv).app,
    schema |-> initOptions(options, penv).schema,
    assigned |-> <<>>, closes |-> 0 ]

\* the setter without its assignments to this.schema
setAppKeepSchema(client, appName) ==
  LET app == IF appName = Public THEN Null
             ELSE IF notNullish(appName) THEN appName
             ELSE client.app
  IN  [client EXCEPT
         !.app = app,
         !.assigned = Append(@, appName),
         !.closes = IF client.app # app THEN @ + 1 ELSE @]

\* set app (appName): 'public' selects the public schema and no app, any
\* other value that is not null or undefined becomes the app, and close is
\* called when super.app is no longer what it was
setApp(client, appName) ==
  LET app == IF appName = Public THEN Null
             ELSE IF notNullish(appName) THEN appName
             ELSE client.app
      schema == IF appName = Public THEN Public
                ELSE IF notNullish(appName) THEN Null
                ELSE client.schema
  IN  [client EXCEPT
         !.app = app,
         !.schema = schema,
         !.assigned = Append(@, appName),
         !.closes = IF client.app # app THEN @ + 1 ELSE @]

Construct(options, penv) ==
  /\ unit = NoUnit
  /\ ~initOptions(options, penv).thrown
  /\ unit' = newClient(options, penv)
  /\ UNCHANGED <<base, sig, repl, procs>>

AssignApp(appName) ==
  /\ unit.op = "client"
  /\ Len(unit.assigned) < MaxAssign
  /\ unit' = setApp(unit, appName)
  /\ UNCHANGED <<base, sig, repl, procs>>

ClientNext ==
  \/ \E options \in UserOptions, penv \in ProcessEnvs : Construct(options, penv)
  \/ \E appName \in AppValues : AssignApp(appName)

SpecClient == Init /\ [][ClientNext]_vars

\* C27: after construction and after every assignment to client.app, schema
\* is 'public' if and only if app is null (or undefined); an assignment calls
\* close exactly when it changed the value of app.
C27_AppSchemaAndClose ==
  /\ [](unit.op = "client" => (unit.schema = Public <=> ~notNullish(unit.app)))
  /\ [][(unit.op = "client" /\ unit'.op = "client") =>
          /\ unit'.app # unit.app => unit'.closes = unit.closes + 1
          /\ unit'.app = unit.app => unit'.closes = unit.closes]_vars

C27_Witness ==
  /\ unit.op = "client"
  /\ unit.assigned = <<Public, OptValue, OptValue>>
  /\ unit.app = OptValue
  /\ unit.schema = Null
  /\ unit.closes = 2

\* ------------------------------------------------------------------------
\* env pull followed by env push
\* ------------------------------------------------------------------------

\* the remote env before the pull: an ordinary key, a key in lower case and
\* a key with the reserved prefix
RoundTripEnvs ==
  SUBSET { [k |-> k, v |-> "0"] : k \in { KeyA, KeyLowerA, KeyB, KeyReserved } }

InitRoundTripSpec ==
  /\ InitPack /\ InitInstall /\ InitCli /\ InitEnsure /\ InitBundle /\ InitNode
  /\ config \in Configs
  /\ remoteEnv \in RoundTripEnvs
  /\ env = NoEnv

\* one line KEY='value' of .env as the parser of the next process reads it:
\* the key is what precedes the first '=', the value loses its quotes
parseLine(line) ==
  LET i == CHOOSE j \in DOMAIN line :
             line[j] = "=" /\ \A m \in 1 .. j - 1 : line[m] # "="
  IN  [k |-> SubSeq(line, 1, i - 1), v |-> line[i + 2]]

\* the parsed file: one entry for a key, at the place of its first line and
\* with the value of its last
RECURSIVE parseFile(_)
parseFile(lines) ==
  IF lines = <<>>
    THEN <<>>
    ELSE LET before == parseFile(SubSeq(lines, 1, Len(lines) - 1))
             x == parseLine(lines[Len(lines)])
         IN  IF \E i \in DOMAIN before : before[i].k = x.k
               THEN [i \in DOMAIN before |->
                       IF before[i].k = x.k THEN x ELSE before[i]]
               ELSE Append(before, x)

\* the pull has exited with 0 and hoctail is started again: the new process
\* has the written file as its configuration
NextCommand ==
  /\ cpc = "exited"
  /\ exitCode = 0
  /\ cmd.name = "env" /\ cmd.sub = "pull"
  /\ unit.op = "pull"
  /\ config' = parseFile(unit.file)
  /\ cmd' = NoCmd
  /\ cpc' = "start"
  /\ rlog' = <<>>
  /\ exitCode' = -1
  /\ env' = NoEnv
  /\ UNCHANGED <<errored, spawned, remoteEnv, unit>>
  /\ UNCHANGED <<packVars, installVars, ensureVars, bundle, sig, repl, procs>>

RoundTripNext ==
  \/ \E c \in withOptions(EnvCommands) : CliStart(c)
  \/ AwaitFail
  \/ \E state \in AppStates : GetStateReply(state)
  \/ \E initialized \in BOOLEAN : HasTreeReply(initialized)
  \/ InitSchemaDone
  \/ RebaseDone
  \/ EnvGetReply
  \/ EnvSetDone
  \/ EnvDelDone
  \/ EnvShowReply
  \/ CloseDone
  \/ NextCommand

SpecRoundTrip == InitRoundTripSpec /\ [][RoundTripNext]_vars

\* C28: after env pull and then env push with the written file, the remote
\* env is what it was before the pull, and every entry of the local
\* configuration whose key starts with HOCTAIL_ is a line of the file.
C28_PullPushRoundTrip ==
  (unit.op = "pull" /\ pushed /\ cpc = "exited" /\ exitCode = 0) =>
    /\ remoteEnv = unit.remote
    /\ \A i \in DOMAIN unit.config :
         startsWith(unit.config[i].k, Prefix)
           => envLine(unit.config[i]) \in Range(unit.file)

\* ------------------------------------------------------------------------
\* Properties of installMini
\* ------------------------------------------------------------------------

\* the calls _ensureApp makes, for an app that is started, one that has its
\* tree, and one that is initialised
EnsureCalls ==
  { <<"http_server.get_state">>,
    <<"http_server.get_state", "hasTree">>,
    <<"http_server.get_state", "hasTree", "public.init_schema", "public.rebase">> }

\* checkAppType has answered
typed == cmd.name = "mini" /\ unit.op \in {"installMini", "rollupBundle"}

\* C29 as stated: the upload is issued only after _ensureApp has completed
\* and only for type 'mini'; for another type nothing is uploaded, nothing
\* is bundled and no call that changes the remote state has been made.
C29_OtherTypeChangesNothing ==
  /\ (cmd.name = "mini" /\ "http_server.put" \in Range(rlog)) =>
       /\ typed /\ unit.type = "mini"
       /\ \E calls \in EnsureCalls :
            IsPrefix(calls \o <<"getAppType", "http_server.put">>, rlog)
  /\ (typed /\ unit.type # "mini") =>
       /\ unit.op # "rollupBundle" /\ disk = {}
       /\ Range(rlog) \subseteq
            {"http_server.get_state", "hasTree", "getAppType", "terminate"}

\* C29: the upload is issued only after _ensureApp has completed and only
\* for type 'mini'; for another type nothing is uploaded and nothing is
\* bundled, and the only calls that change the remote state are init_schema
\* and rebase of _ensureApp, made before the type is known.
C29_UploadOnlyForMini ==
  /\ (cmd.name = "mini" /\ "http_server.put" \in Range(rlog)) =>
       /\ typed /\ unit.type = "mini"
       /\ \E calls \in EnsureCalls :
            IsPrefix(calls \o <<"getAppType", "http_server.put">>, rlog)
  /\ (typed /\ unit.type # "mini") =>
       /\ unit.op # "rollupBundle" /\ disk = {}
       /\ \E calls \in EnsureCalls :
            rlog \in {calls \o <<"getAppType", "terminate">>}

C29_Witness ==
  /\ typed
  /\ unit.type = "page"
  /\ cpc = "exited"
  /\ exitCode = 0
  /\ rlog = <<"http_server.get_state", "hasTree", "public.init_schema",
              "public.rebase", "getAppType", "terminate">>

\* ------------------------------------------------------------------------
\* The processes of the repl command (Cli.js, _setupRepl)
\* ------------------------------------------------------------------------

\* node options on the command line of the first process
MaxArgv == 3

\* processes in one chain
MaxProcs == 4

ReplAwaitFlag == "--experimental-repl-await"

NodeFlags == {ReplAwaitFlag, "--inspect", "--trace-warnings"}

\* process.execArgv of the process the user starts
ExecArgvs == UNION { [1 .. k -> NodeFlags] : k \in 0 .. MaxArgv }

\* Array.prototype.includes
includes(list, x) == \E i \in DOMAIN list : list[i] = x

\* the node options of the child when the flag is not handed on
spawnArgsSame(execArgv) == execArgv

\* args.push(...process.execArgv, '--experimental-repl-await',
\* ...process.argv.slice(1)): the node options of the child are those that
\* precede the script
spawnArgs(execArgv) == execArgv \o <<ReplAwaitFlag>>

newProcess(execArgv, key) ==
  [ execArgv |-> execArgv,
    key      |-> key,     \* --key or HOCTAIL_API_KEY is set
    pc       |-> "start",
    clients  |-> 0,       \* clients the process created
    calls    |-> <<>> ]   \* calls to the server the process made

\* the user runs hoctail, or hoctail <script>
HoctailStart(execArgv, key) ==
  /\ procs = <<>>
  /\ procs' = <<newProcess(execArgv, key)>>
  /\ UNCHANGED <<base, sig, repl, unit>>

\* the action of repl in process i: without the flag a child is spawned and
\* the action returns; with it the client is created and connect is called,
\* or createClient throws for want of a key
ReplAction(i) ==
  /\ i \in DOMAIN procs
  /\ procs[i].pc = "start"
  /\ IF ~includes(procs[i].execArgv, ReplAwaitFlag)
       THEN /\ Len(procs) < MaxProcs
            /\ procs' = Append([procs EXCEPT ![i].pc = "parent"],
                               newProcess(spawnArgs(procs[i].execArgv), procs[i].key))
     ELSE IF ~procs[i].key
       THEN procs' = [procs EXCEPT ![i].pc = "exit1", ![i].clients = 1]
     ELSE procs' = [procs EXCEPT ![i].pc = "connect", ![i].clients = 1,
                                 ![i].calls = <<"connect">>]
  /\ UNCHANGED <<base, sig, repl, unit>>

SpawnNext ==
  \/ \E execArgv \in ExecArgvs, key \in BOOLEAN : HoctailStart(execArgv, key)
  \/ \E i \in 1 .. MaxProcs : ReplAction(i)

SpecSpawn == Init /\ [][SpawnNext]_vars

\* C30: a process without the flag spawns one child with the flag added,
\* creates no client and makes no call; a process with the flag spawns
\* nothing; so no chain is longer than the first process and its child.
C30_SpawnAtMostOnce ==
  /\ Len(procs) <= 2
  /\ \A i \in DOMAIN procs :
       /\ includes(procs[i].execArgv, ReplAwaitFlag) => procs[i].pc # "parent"
       /\ procs[i].pc = "parent" =>
            /\ i = 1 /\ Len(procs) = 2
            /\ procs[2].execArgv = procs[1].execArgv \o <<ReplAwaitFlag>>
            /\ procs[i].clients = 0
            /\ procs[i].calls = <<>>
       /\ (procs[i].pc # "start" /\ ~includes(procs[i].execArgv, ReplAwaitFlag))
            => procs[i].pc = "parent"

C30_Witness ==
  /\ Len(procs) = 2
  /\ procs[1].pc = "parent"
  /\ procs[1].execArgv = <<"--inspect">>
  /\ procs[2].execArgv = <<"--inspect", ReplAwaitFlag>>
  /\ procs[2].pc = "connect"

====
